---- MODULE Spec2Model ----
(***************************************************************************)
(* State-machine model of the two-tier refresh cache RefreshCache[T]       *)
(* (package rcache): a local map guarded by one mutex, a shared Redis      *)
(* store, a recompute function run in a goroutine under a timeout, and a   *)
(* ticker goroutine that rechecks the keys of the local map.               *)
(*                                                                         *)
(* Time is a discrete clock `now`.  Cached values are integers minted from *)
(* a counter, so a larger value was produced later; 0 is the zero value    *)
(* of T.  The zero time.Time is instant 0 and the clock starts at 1.       *)
(***************************************************************************)
EXTENDS Integers, FiniteSets, Sequences, TLC

\* ---- bounds of the model
MaxTime == 3
MaxVal == 2
\* The number of jobs that AddJob is given.
MaxJobs == 2
MaxEvents == 2
ShortWindow == 1
LongWindow == 3

\* ---- program constant: RefreshTimeout: 1 * time.Second (one clock unit)
RefreshTimeout == 1
\* ---- program constant: result := make(chan rt, 1), the buffer of the
\* channel on which the recompute goroutine sends its result
ResultCap == 1

Keys == {"k1", "k2"}
\* The keys the callers of the main specification use.
HotKeys == {"k1"}
Callers == {"c1"}
Waiters == {"c2"}
Tickers == {"t1"}
\* The goroutine that a further call of rc.Start spawns.
Restarts == {"t2"}
Refreshers == Tickers \cup Restarts
Threads == Callers \cup Waiters \cup Refreshers
\* The periods given to rc.Start.
Periods == {0, 1}
NoOne == "none"
Windows == {ShortWindow, LongWindow}
\* The ttl1/ttl2 a caller of SetTTL passes: none at all, or a long one.
TTLs == {0, LongWindow}

VARIABLES
    now,        \* the wall clock
    cfg,        \* rc.Recheck, rc.Expires, rc.redisClient ("nil" or "client")
    items,      \* rc.items: the local tier
    redis,      \* the Redis server: rows under redisKey(key)
    lock,       \* rc.lock: the thread holding it, or NoOne
    pc,         \* where each thread is
    op,         \* the call each thread is executing
    chan,       \* the result channel and goroutine of each thread's refresh
    abandoned,  \* per key: the recompute goroutines whose caller timed out, by the
                \* value they return: those still running, and those that are done
    minted,     \* the last value minted
    todo,       \* per ticker: keys returned by GetRecheckKeys, not yet refreshed
    pub,        \* per key: the value and expiry last published by a refresh of this
                \* instance, until a SetTTL replaces it (history)
    ev,         \* the call of the last step, if that step was one (history)
    users,      \* CacheMeterProvider: up.users, the users passed to the recompute
    localKeys,  \* Cache: rc.localKeys, the recheck time of each registered key
    chain,      \* Cache: the entries of rc.chainCache
    topic,      \* per instance sharing the Redis server: the keyPrefix it was
                \* constructed with and its rc.topic
    ekey,       \* per instance: the last key given to rc.redisKey and the result
    f,          \* LocalJobs: f.jobs ("chan" or "nil"), f.running, f.middlewares,
                \* f.uniqueJobs, and whether f.cancel has been called
    queue,      \* the channel made by NewLocalJobs: its buffer, and whether it is closed
    wk,         \* per worker goroutine of Run: where it is and the job it runs
    runner,     \* where the caller of Run is
    hist,       \* what happened to the jobs (history)
    adder,      \* a goroutine of the embedder inside f.AddJob: where it is
                \* and the job it adds
    limiter     \* LimitMeterProvider over a LocalMeterProvider: Enabled,
                \* DefaultLimits, the limits parsed from the user's gatekeeper
                \* data, the metered events, and the last call (history)

cacheVars == <<now, cfg, items, redis, lock, pc, op, chan, abandoned, minted, todo, pub, ev>>
meterVars == <<users, localKeys, chain>>
\* What the calls of RefreshCache leave alone.
topicVars == <<topic, ekey>>
jobVars == <<f, queue, wk, runner, hist, adder>>
limitVars == <<limiter>>
nonCache == <<meterVars, topicVars, jobVars, limitVars>>
vars == <<cacheVars, nonCache>>

\* ---- Item[T] and its zero value
ZeroItem == [Value |-> 0, ExpiresAt |-> 0, RecheckAt |-> 0]
NoRow == [present |-> FALSE, item |-> ZeroItem]
NoData == [kind |-> "none", Value |-> 0, ExpiresAt |-> 0, RecheckAt |-> 0]
NoRecord == [present |-> FALSE, data |-> NoData, ttlAt |-> 0]
NoOp == [name |-> "none", key |-> "k1", a |-> 0, deadline |-> 0, fnv |-> 0]
NoChan == [st |-> "idle", item |-> 0, err |-> FALSE]
NoPub == [set |-> FALSE, v |-> 0, exp |-> 0]
NoneAbandoned == [running |-> {}, done |-> {}]
NoEv == [op |-> "none", key |-> "k1", val |-> 0, ok |-> FALSE, called |-> FALSE,
         rd |-> "none", waited |-> FALSE]

\* ---- the code's pure parts --------------------------------------------

\* json.Marshal(item): every field of Item[T] is written.
Marshal(item) ==
    [kind |-> "ok", Value |-> item.Value,
     ExpiresAt |-> item.ExpiresAt, RecheckAt |-> item.RecheckAt]

\* json.Unmarshal(a, &ld) into the pre-filled ld.  "ok": every field is
\* decoded.  "garbage": bytes with no decodable field (a syntax error, or
\* JSON of another shape); ld keeps what it was pre-filled with and the
\* error is reported.
Unmarshal(data, ld) ==
    IF data.kind = "ok"
    THEN [item |-> [Value |-> data.Value, ExpiresAt |-> data.ExpiresAt,
                    RecheckAt |-> data.RecheckAt], err |-> FALSE]
    ELSE [item |-> ld, err |-> TRUE]

\* Faulty variant of getLocal: the expiry of the row is not looked at.
getLocalKeepsExpired(key) ==
    LET a == items[key] IN
    IF ~a.present THEN [item |-> ZeroItem, ok |-> FALSE]
    ELSE [item |-> a.item, ok |-> TRUE]

\* Faulty variant of getLocal: a row is dropped once its recheck time has
\* come, as if RecheckAt were its expiry.
getLocalStaleIsExpired(key) ==
    LET a == items[key] IN
    IF ~a.present THEN [item |-> ZeroItem, ok |-> FALSE]
    ELSE IF a.item.RecheckAt <= now \/ a.item.ExpiresAt < now
         THEN [item |-> a.item, ok |-> FALSE]
         ELSE [item |-> a.item, ok |-> TRUE]

\* rc.getLocal(key): absent when there is no row or the row has expired.
getLocal(key) ==
    LET a == items[key] IN
    IF ~a.present THEN [item |-> ZeroItem, ok |-> FALSE]
    ELSE IF a.item.ExpiresAt < now THEN [item |-> a.item, ok |-> FALSE]
    ELSE [item |-> a.item, ok |-> TRUE]

\* Faulty variant of getRedis: the error of the GET is not looked at and
\* the row is decoded whenever the server holds one.
getRedisIgnoresError(key, io, adv) ==
    IF cfg.redisClient = "nil" THEN [item |-> ZeroItem, ok |-> FALSE]
    ELSE IF ~redis[key].present THEN [item |-> ZeroItem, ok |-> FALSE]
    ELSE LET t  == now
             ld == Unmarshal(redis[key].data,
                             [Value |-> 0, ExpiresAt |-> t, RecheckAt |-> t]).item
         IN IF ld.ExpiresAt < now \/ (adv /\ ld.ExpiresAt = now)
            THEN [item |-> ld, ok |-> FALSE]
            ELSE [item |-> ld, ok |-> TRUE]

\* Faulty variant of getRedis: the nil client is not tested for and the
\* read goes to the server.
getRedisNoNilTest(key, io, adv) ==
    IF ~io \/ ~redis[key].present THEN [item |-> ZeroItem, ok |-> FALSE]
    ELSE LET t  == now
             ld == Unmarshal(redis[key].data,
                             [Value |-> 0, ExpiresAt |-> t, RecheckAt |-> t]).item
         IN IF ld.ExpiresAt < now \/ (adv /\ ld.ExpiresAt = now)
            THEN [item |-> ld, ok |-> FALSE]
            ELSE [item |-> ld, ok |-> TRUE]

\* rc.getRedis(ctx, key).  Without a client it reports a miss at once.
\* io: the GET is answered within RedisTimeout.
\* adv: the clock has moved between t := time.Now() and the second
\* time.Now() of the expiry test (by less than one unit of `now`).
getRedis(key, io, adv) ==
    IF cfg.redisClient = "nil" THEN [item |-> ZeroItem, ok |-> FALSE]
    ELSE IF ~io \/ ~redis[key].present THEN [item |-> ZeroItem, ok |-> FALSE]
    ELSE LET t  == now
             ld == Unmarshal(redis[key].data,
                             [Value |-> 0, ExpiresAt |-> t, RecheckAt |-> t]).item
         IN IF ld.ExpiresAt < now \/ (adv /\ ld.ExpiresAt = now)
            THEN [item |-> ld, ok |-> FALSE]
            ELSE [item |-> ld, ok |-> TRUE]

\* rc.setLocal(key, item) applied to a local map.
setLocal(its, key, item) ==
    [its EXCEPT ![key] = [present |-> TRUE, item |-> item]]

\* rc.setRedis(ctx, key, item): SET with the server-side TTL rc.Expires;
\* a failed SET (io = FALSE) is logged and swallowed; without a client
\* nothing is sent.
setRedis(key, item, io) ==
    IF cfg.redisClient = "nil" THEN redis
    ELSE IF io
    THEN [redis EXCEPT ![key] = [present |-> TRUE, data |-> Marshal(item),
                                 ttlAt |-> now + cfg.Expires]]
    ELSE redis

\* How the remote GET of a getRedis call went: "none" when no GET was
\* made, "ok" when it was answered, "fail" on an error or a timeout.
RemoteRead(io) ==
    IF cfg.redisClient = "nil" THEN "none" ELSE IF io THEN "ok" ELSE "fail"

\* Faulty variant of check: a remote hit is returned without being copied
\* into the local tier.
checkNoWarm(key, io, adv) ==
    LET a == getLocal(key) IN
    IF a.ok THEN [val |-> a.item.Value, ok |-> TRUE, items |-> items, rd |-> "none"]
    ELSE LET b == getRedis(key, io, adv) IN
         [val |-> b.item.Value, ok |-> b.ok, items |-> items,
          rd |-> RemoteRead(io)]

\* Faulty variant of check: a local row found expired is deleted when the
\* remote tier has no usable entry to put in its place.
checkEvicts(key, io, adv) ==
    LET a == getLocal(key) IN
    IF a.ok THEN [val |-> a.item.Value, ok |-> TRUE, items |-> items, rd |-> "none"]
    ELSE LET b == getRedis(key, io, adv) IN
         [val |-> b.item.Value, ok |-> b.ok,
          items |-> IF b.ok THEN setLocal(items, key, b.item)
                    ELSE [items EXCEPT ![key] = NoRow],
          rd |-> RemoteRead(io)]

\* rc.check(ctx, key): local, else remote with warm-up of the local tier.
check(key, io, adv) ==
    LET a == getLocal(key) IN
    IF a.ok THEN [val |-> a.item.Value, ok |-> TRUE, items |-> items, rd |-> "none"]
    ELSE LET b == getRedis(key, io, adv) IN
         [val |-> b.item.Value, ok |-> b.ok,
          items |-> IF b.ok THEN setLocal(items, key, b.item) ELSE items,
          rd |-> RemoteRead(io)]

\* Faulty variant of setTTL: the entry goes to the remote tier only.
setTTLRemoteOnly(key, value, ttl1, ttl2, io) ==
    LET n    == now
        item == [Value |-> value, ExpiresAt |-> n + ttl2, RecheckAt |-> n + ttl1]
    IN [item |-> item, items |-> items, redis |-> setRedis(key, item, io)]

\* Faulty variant of setTTL: ttl1 and ttl2 are taken for each other.
setTTLSwapped(key, value, ttl1, ttl2, io) ==
    LET n    == now
        item == [Value |-> value, ExpiresAt |-> n + ttl1, RecheckAt |-> n + ttl2]
    IN [item |-> item, items |-> setLocal(items, key, item),
        redis |-> setRedis(key, item, io)]

\* rc.setTTL(ctx, key, value, ttl1, ttl2)
setTTL(key, value, ttl1, ttl2, io) ==
    LET n    == now
        item == [Value |-> value, ExpiresAt |-> n + ttl2, RecheckAt |-> n + ttl1]
    IN [item |-> item, items |-> setLocal(items, key, item),
        redis |-> setRedis(key, item, io)]

\* Faulty variant of recheckKey: a row whose recheck time is exactly the
\* time of the scan is taken for fresh.
recheckKeyStrict(key, io, adv) ==
    LET t == now
        v == items[key].item
    IN IF v.RecheckAt >= t THEN [item |-> v, due |-> FALSE, asked |-> FALSE]
       ELSE LET a  == getRedis(key, io, adv)
                v2 == IF a.ok THEN a.item ELSE v
            IN [item |-> v2, due |-> ~(v2.RecheckAt >= t),
                asked |-> cfg.redisClient # "nil"]

\* Faulty variant of recheckKey: the remote tier is not consulted.
recheckKeyLocalOnly(key, io, adv) ==
    LET t == now
        v == items[key].item
    IN [item |-> v, due |-> ~(v.RecheckAt > t), asked |-> FALSE]

\* One iteration of the loop of rc.GetRecheckKeys for a key of rc.items.
recheckKey(key, io, adv) ==
    LET t == now
        v == items[key].item
    IN IF v.RecheckAt > t THEN [item |-> v, due |-> FALSE, asked |-> FALSE]
       ELSE LET a  == getRedis(key, io, adv)
                v2 == IF a.ok THEN a.item ELSE v
            IN [item |-> v2, due |-> ~(v2.RecheckAt > t),
                asked |-> cfg.redisClient # "nil"]

\* ---- initial state: NewRefreshCache, then rc.Start(t) with t > 0 -----------

\* NewCacheMeterProvider: no user passed, NewCache: nothing registered and
\* nothing cached.
MeterKeys == {"u1", "u2"}
NoEntry == [present |-> FALSE, Value |-> 0, RecheckAt |-> 0, ExpiresAt |-> 0]
InitMeter ==
    /\ users = {}
    /\ localKeys = [k \in MeterKeys |-> [present |-> FALSE, RecheckAt |-> 0]]
    /\ chain = [k \in MeterKeys |-> NoEntry]

\* Strings are sequences of characters.
Test == <<"t", "e", "s", "t">>
Ecache == <<"e", "c", "a", "c", "h", "e">>
\* The keyPrefix arguments and the keys of the instances on one server.
Prefixes == {<<"a">>, <<"b">>, <<"a", ":", "b">>, Test}
CacheKeys == {<<"x">>, <<"y">>, <<"b", ":", "x">>}
Instances == {"rc1", "rc2"}

\* NewRefreshCache(refreshFn, keyPrefix, redisClient): the topic of the
\* instance.
NewRefreshCache(keyPrefix) == [keyPrefix |-> keyPrefix, topic |-> Test]

\* rc.redisKey(key): fmt.Sprintf("ecache:%s:%s", rc.topic, key).
redisKey(rc, key) == Ecache \o <<":">> \o rc.topic \o <<":">> \o key

NoKey == [called |-> FALSE, key |-> <<>>, ekey |-> <<>>]
InitTopicIdle ==
    /\ topic = [i \in Instances |-> NewRefreshCache(Test)]
    /\ ekey = [i \in Instances |-> NoKey]

\* ---- Job and the queue LocalJobs
JobTypes == {"test"}
JobArgs == {"a", "b"}
\* JobDeadline: none, or instant 2.
Deadlines == {0, 2}
Job == [JobType : JobTypes, JobArgs : JobArgs, Unique : BOOLEAN, JobDeadline : Deadlines]
\* The jobs given to AddJob: with arguments "a" of every kind, with
\* arguments "b" a unique one without deadline.
JobInputs == {j \in Job : j.JobArgs = "b" => (j.Unique /\ j.JobDeadline = 0)}
NoJob == [JobType |-> "", JobArgs |-> "", Unique |-> FALSE, JobDeadline |-> 0]
\* The goroutines of Run, one for each function that AddQueue appended.
Workers == {"w1", "w2"}
Middlewares == {"m1", "m2"}
JobIds == 1..MaxJobs

\* job.HexKey(): job.JobType + ":" + hex(sha1(json(job.JobArgs))).  The
\* digest of the encoded arguments stands for the arguments; Unique,
\* JobDeadline and Queue are not part of the key.
HexKey(job) == <<job.JobType, ":", job.JobArgs>>

NoWork == [pc |-> "off", job |-> NoJob, id |-> 0, w |-> <<>>, adding |-> NoJob]
NoLast == [op |-> "none", job |-> NoJob, id |-> 0, err |-> "nil"]
\* NewLocalJobs(), AddJobType for the job types and AddQueue("default", 2).
InitJobs ==
    /\ f = [jobs |-> "chan", running |-> FALSE, middlewares |-> <<>>,
            uniqueJobs |-> {}, uniqueJobsLock |-> NoOne, cancelled |-> FALSE]
    /\ queue = [buf |-> <<>>, closed |-> FALSE]
    /\ wk = [w \in Workers |-> NoWork]
    /\ runner = "idle"
    /\ hist = [added |-> 0,
               jobs |-> [i \in JobIds |-> NoJob],
               ran |-> [i \in JobIds |-> 0],
               mw |-> [i \in JobIds |-> [m \in Middlewares |-> 0]],
               skipped |-> {},
               stopped |-> FALSE,
               last |-> NoLast]
    /\ adder = [pc |-> "idle", job |-> NoJob]

\* ---- LimitMeter over the meter of a LocalMeterProvider

\* Dimensions: each a set of key/value pairs.
Foo == {[Key |-> "ok", Value |-> "foo"]}
Bar == {[Key |-> "ok", Value |-> "bar"]}
MeterNames == {"testmeter", "other"}
LimitPeriods == {"hourly", "total"}
\* UserMeterLimit values.
Limits == [MeterName : {"testmeter"}, Dims : {{}, Foo}, Period : LimitPeriods,
           Limit : 1..MaxVal]
\* The limit that parseGkUserLimits reads from the data of the user.
GkLimit == [MeterName |-> "testmeter", Dims |-> Bar, Period |-> "total", Limit |-> 1]
NoCall == [op |-> "none", meterName |-> "", value |-> 0, dims |-> {}, ok |-> TRUE]

\* meters.DimsContainedIn(checkDims, eventDims): every dimension of
\* checkDims occurs in eventDims with the same value.
DimsContainedIn(checkDims, eventDims) ==
    \A matchDim \in checkDims :
        \E ed \in eventDims : ed.Key = matchDim.Key /\ ed.Value = matchDim.Value

\* meters.PeriodSpan(period): the running hour (one clock unit), or all of
\* time for "total".
PeriodSpan(period, t) ==
    IF period = "hourly" THEN [d1 |-> t, d2 |-> t + 1]
    ELSE [d1 |-> 0, d2 |-> MaxTime + 2]

\* LocalMeterProvider.GetValue(u, meterName, startTime, endTime, checkDims):
\* the sum of the events of the meter that lie in the span and carry the
\* dimensions.
RECURSIVE LocalGetValue(_, _, _, _, _)
LocalGetValue(events, meterName, d1, d2, checkDims) ==
    IF events = <<>> THEN 0
    ELSE LET e == Head(events)
             match == /\ e.meterName = meterName
                      /\ ~(e.time >= d2)
                      /\ ~(e.time < d1)
                      /\ DimsContainedIn(checkDims, e.dims)
         IN (IF match THEN e.value ELSE 0)
            + LocalGetValue(Tail(events), meterName, d1, d2, checkDims)

\* LimitMeter.GetLimits(meterName, checkDims): the limits of the user, then
\* the default limits, that carry the meter name and whose dimensions are
\* all among the dimensions given.
GetLimits(meterName, checkDims) ==
    LET matches(lim) == lim.MeterName = meterName /\ DimsContainedIn(lim.Dims, checkDims)
    IN SelectSeq(limiter.userLimits, matches) \o SelectSeq(limiter.DefaultLimits, matches)

\* Faulty variant of limited: reaching the limit counts as passing it.
limitedInclusive(lim, value) ==
    LET span == PeriodSpan(lim.Period, now)
        currentValue == LocalGetValue(limiter.events, lim.MeterName, span.d1, span.d2, lim.Dims)
    IN currentValue + value >= lim.Limit

\* Check: currentValue+value > lim.Limit, the current value being that of
\* the meter over the span of the limit and the dimensions of the limit.
limited(lim, value) ==
    LET span == PeriodSpan(lim.Period, now)
        currentValue == LocalGetValue(limiter.events, lim.MeterName, span.d1, span.d2, lim.Dims)
    IN currentValue + value > lim.Limit

\* The loop of LimitMeter.Check over the limits: false at the first limit
\* that would be passed, true when the loop ends.
RECURSIVE checkLimits(_, _)
checkLimits(lims, value) ==
    IF lims = <<>> THEN TRUE
    ELSE IF limited(Head(lims), value) THEN FALSE
    ELSE checkLimits(Tail(lims), value)

\* NewLimitMeterProvider(NewLocalMeterProvider()): not enabled, no limits,
\* nothing metered.
InitLimitIdle ==
    limiter = [Enabled |-> FALSE, DefaultLimits |-> <<>>, userLimits |-> <<>>,
               events |-> <<>>, last |-> NoCall]

InitNonCache == InitMeter /\ InitTopicIdle /\ InitJobs /\ InitLimitIdle

Init ==
    /\ now = 1
    /\ cfg \in [Recheck : Windows, Expires : Windows, redisClient : {"client"}]
    /\ items = [k \in Keys |-> NoRow]
    /\ redis = [k \in Keys |-> NoRecord]
    /\ lock = NoOne
    /\ pc = [th \in Threads |-> IF th \in Restarts THEN "off" ELSE "idle"]
    /\ op = [th \in Threads |-> NoOp]
    /\ chan = [th \in Threads |-> NoChan]
    /\ abandoned = [k \in Keys |-> NoneAbandoned]
    /\ minted = 0
    /\ todo = [t \in Refreshers |-> {}]
    /\ pub = [k \in Keys |-> NoPub]
    /\ ev = NoEv
    /\ InitNonCache

\* ---- steps ---------------------------------------------------------------

\* The record of a call: what it returned (val, ok), whether it invoked the
\* recompute function, how the remote GET of its rc.check went ("none": no
\* GET was made; "ok": it was answered; "fail": error or timeout), and
\* whether the caller had blocked on the lock.  "GetMiss" records a Get
\* that found no usable entry and has entered rc.refresh.
Event(name, key, val, ok, called, rd, waited) ==
    [op |-> name, key |-> key, val |-> val, ok |-> ok, called |-> called,
     rd |-> rd, waited |-> waited]

\* Faulty variant of Returned: the goroutine of rc.Start leaves its loop
\* over the due keys after the first call of rc.Refresh.
ReturnedLeavesLoop(th) == "idle"

\* Where a thread goes when its call returns.
Returned(th) ==
    IF th \in Refreshers /\ todo[th] # {} THEN "loop" ELSE "idle"

\* Faulty variant of Check: rc.check is called without taking rc.lock.
CheckNoMutex(c, key, io, adv) ==
    /\ pc[c] = "idle"
    /\ LET r == check(key, io, adv) IN
         /\ items' = r.items
         /\ ev' = Event("Check", key, r.val, r.ok, FALSE, r.rd, FALSE)
    /\ UNCHANGED <<now, cfg, redis, lock, pc, op, chan, abandoned, minted, todo, pub>>
    /\ UNCHANGED nonCache

\* rc.Check(ctx, key): lock, check, unlock.
Check(c, key, io, adv) ==
    /\ pc[c] = "idle"
    /\ lock = NoOne
    /\ LET r == check(key, io, adv) IN
         /\ items' = r.items
         /\ ev' = Event("Check", key, r.val, r.ok, FALSE, r.rd, FALSE)
    /\ UNCHANGED <<now, cfg, redis, lock, pc, op, chan, abandoned, minted, todo, pub>>
    /\ UNCHANGED nonCache

\* Faulty variant of GetLocked: the caller waits for the recompute without
\* holding rc.lock.
GetLockedNoMutex(c, key, io, adv) ==
    /\ lock = NoOne
    /\ LET r == check(key, io, adv)
       IN /\ items' = r.items
          /\ IF r.ok
             THEN /\ pc' = [pc EXCEPT ![c] = "idle"]
                  /\ op' = [op EXCEPT ![c] = NoOp]
                  /\ ev' = Event("Get", key, r.val, TRUE, FALSE, r.rd, pc[c] = "get_lock")
                  /\ UNCHANGED <<chan, minted>>
             ELSE /\ minted < MaxVal
                  /\ pc' = [pc EXCEPT ![c] = "select"]
                  /\ op' = [op EXCEPT ![c] = [name |-> "Get", key |-> key, a |-> r.val,
                                              deadline |-> now + RefreshTimeout,
                                              fnv |-> minted + 1]]
                  /\ chan' = [chan EXCEPT ![c] = [NoChan EXCEPT !.st = "running"]]
                  /\ minted' = minted + 1
                  /\ ev' = Event("GetMiss", key, r.val, FALSE, TRUE, r.rd, pc[c] = "get_lock")
    /\ UNCHANGED <<now, cfg, redis, lock, abandoned, todo, pub>>
    /\ UNCHANGED nonCache

\* rc.Get(ctx, key) once the lock is taken: rc.check; on a hit it returns,
\* on a miss it enters rc.refresh: the recompute goroutine is started and
\* the caller waits in the select, still holding the lock.
GetLocked(c, key, io, adv) ==
    /\ lock = NoOne
    /\ LET r == check(key, io, adv)
       IN /\ items' = r.items
          /\ IF r.ok
             THEN /\ pc' = [pc EXCEPT ![c] = "idle"]
                  /\ op' = [op EXCEPT ![c] = NoOp]
                  /\ ev' = Event("Get", key, r.val, TRUE, FALSE, r.rd, pc[c] = "get_lock")
                  /\ UNCHANGED <<lock, chan, minted>>
             ELSE /\ minted < MaxVal
                  /\ lock' = c
                  /\ pc' = [pc EXCEPT ![c] = "select"]
                  /\ op' = [op EXCEPT ![c] = [name |-> "Get", key |-> key, a |-> r.val,
                                              deadline |-> now + RefreshTimeout,
                                              fnv |-> minted + 1]]
                  /\ chan' = [chan EXCEPT ![c] = [NoChan EXCEPT !.st = "running"]]
                  /\ minted' = minted + 1
                  /\ ev' = Event("GetMiss", key, r.val, FALSE, TRUE, r.rd, pc[c] = "get_lock")
    /\ UNCHANGED <<now, cfg, redis, abandoned, todo, pub>>
    /\ UNCHANGED nonCache

\* A caller calls rc.Get(ctx, key) while the lock is free.
Get(c, key, io, adv) ==
    /\ pc[c] = "idle"
    /\ GetLocked(c, key, io, adv)

\* A second caller calls rc.Get(ctx, key) while another thread holds the
\* lock: it blocks in rc.lock.Lock().
GetBlock(c, key) ==
    /\ pc[c] = "idle"
    /\ lock # NoOne
    /\ pc' = [pc EXCEPT ![c] = "get_lock"]
    /\ op' = [op EXCEPT ![c] = [NoOp EXCEPT !.name = "Get", !.key = key]]
    /\ ev' = NoEv
    /\ UNCHANGED <<now, cfg, items, redis, lock, chan, abandoned, minted, todo, pub>>
    /\ UNCHANGED nonCache

\* The blocked caller gets the lock and goes on with rc.Get.
GetUnblock(c, io, adv) ==
    /\ pc[c] = "get_lock"
    /\ GetLocked(c, op[c].key, io, adv)

\* rc.Refresh(ctx, key) called by a caller: lock, then rc.refresh starts
\* the recompute goroutine and waits in the select.
RefreshCall(c, key) ==
    /\ pc[c] = "idle"
    /\ lock = NoOne
    /\ minted < MaxVal
    /\ lock' = c
    /\ pc' = [pc EXCEPT ![c] = "select"]
    /\ op' = [op EXCEPT ![c] = [name |-> "Refresh", key |-> key, a |-> 0,
                                deadline |-> now + RefreshTimeout, fnv |-> minted + 1]]
    /\ chan' = [chan EXCEPT ![c] = [NoChan EXCEPT !.st = "running"]]
    /\ minted' = minted + 1
    /\ ev' = NoEv
    /\ UNCHANGED <<now, cfg, items, redis, abandoned, todo, pub>>
    /\ UNCHANGED nonCache

\* The recompute goroutine: rc.refreshFn returns (item, err) and the result
\* is sent on the buffered channel.
FnReturn(th, err) ==
    /\ chan[th].st = "running"
    /\ chan' = [chan EXCEPT ![th] = [st |-> "sent", item |-> op[th].fnv, err |-> err]]
    /\ ev' = NoEv
    /\ UNCHANGED <<now, cfg, items, redis, lock, pc, op, abandoned, minted, todo, pub>>
    /\ UNCHANGED nonCache

\* rc.refresh: the select receives the result; on success setTTL publishes.
\* Then the caller (Get or Refresh) returns and unlocks.
SelectResult(th, io) ==
    /\ pc[th] = "select"
    /\ chan[th].st = "sent"
    /\ LET key == op[th].key
           ret == chan[th]
           s   == setTTL(key, ret.item, cfg.Recheck, cfg.Expires, io)
       IN /\ IF ret.err
             THEN UNCHANGED <<items, redis, pub>>
             ELSE /\ items' = s.items
                  /\ redis' = s.redis
                  /\ pub' = [pub EXCEPT ![key] = [set |-> TRUE, v |-> ret.item,
                                                  exp |-> s.item.ExpiresAt]]
          /\ ev' = IF op[th].name = "Get"
                   THEN Event("Get", key, IF ret.err THEN op[th].a ELSE ret.item,
                              ~ret.err, TRUE, "none", th \in Waiters)
                   ELSE Event("Refresh", key, ret.item, ~ret.err, TRUE, "none", FALSE)
    /\ lock' = NoOne
    /\ pc' = [pc EXCEPT ![th] = Returned(th)]
    /\ op' = [op EXCEPT ![th] = NoOp]
    /\ chan' = [chan EXCEPT ![th] = NoChan]
    /\ UNCHANGED <<now, cfg, abandoned, minted, todo>>
    /\ UNCHANGED nonCache

\* Faulty variant of SelectTimeout: the timed-out key is dropped from the
\* local tier.
SelectTimeoutDropsRow(th) ==
    /\ pc[th] = "select"
    /\ chan[th].st = "running"
    /\ now >= op[th].deadline
    /\ abandoned' = [abandoned EXCEPT ![op[th].key].running = @ \cup {op[th].fnv}]
    /\ items' = [items EXCEPT ![op[th].key] = NoRow]
    /\ ev' = IF op[th].name = "Get"
             THEN Event("Get", op[th].key, op[th].a, FALSE, TRUE, "none", th \in Waiters)
             ELSE Event("Refresh", op[th].key, 0, FALSE, TRUE, "none", FALSE)
    /\ lock' = NoOne
    /\ pc' = [pc EXCEPT ![th] = Returned(th)]
    /\ op' = [op EXCEPT ![th] = NoOp]
    /\ chan' = [chan EXCEPT ![th] = NoChan]
    /\ UNCHANGED <<now, cfg, redis, minted, todo, pub>>
    /\ UNCHANGED nonCache

\* Faulty variant of SelectTimeout: the call returns without unlocking.
SelectTimeoutKeepsLock(th) ==
    /\ pc[th] = "select"
    /\ chan[th].st = "running"
    /\ now >= op[th].deadline
    /\ abandoned' = [abandoned EXCEPT ![op[th].key].running = @ \cup {op[th].fnv}]
    /\ ev' = IF op[th].name = "Get"
             THEN Event("Get", op[th].key, op[th].a, FALSE, TRUE, "none", th \in Waiters)
             ELSE Event("Refresh", op[th].key, 0, FALSE, TRUE, "none", FALSE)
    /\ pc' = [pc EXCEPT ![th] = Returned(th)]
    /\ op' = [op EXCEPT ![th] = NoOp]
    /\ chan' = [chan EXCEPT ![th] = NoChan]
    /\ UNCHANGED <<now, cfg, items, redis, lock, minted, todo, pub>>
    /\ UNCHANGED nonCache

\* rc.refresh: time.After(rc.RefreshTimeout) fires before a result was
\* sent.  The goroutine keeps running; nobody will read its channel.
SelectTimeout(th) ==
    /\ pc[th] = "select"
    /\ chan[th].st = "running"
    /\ now >= op[th].deadline
    /\ abandoned' = [abandoned EXCEPT ![op[th].key].running = @ \cup {op[th].fnv}]
    /\ ev' = IF op[th].name = "Get"
             THEN Event("Get", op[th].key, op[th].a, FALSE, TRUE, "none", th \in Waiters)
             ELSE Event("Refresh", op[th].key, 0, FALSE, TRUE, "none", FALSE)
    /\ lock' = NoOne
    /\ pc' = [pc EXCEPT ![th] = Returned(th)]
    /\ op' = [op EXCEPT ![th] = NoOp]
    /\ chan' = [chan EXCEPT ![th] = NoChan]
    /\ UNCHANGED <<now, cfg, items, redis, minted, todo, pub>>
    /\ UNCHANGED nonCache

\* Faulty variant of AbandonedReturn: the late result is stored in the
\* local tier.
AbandonedReturnPublishes(key) ==
    /\ \E v \in abandoned[key].running :
         /\ abandoned' = [abandoned EXCEPT ![key] = [running |-> @.running \ {v},
                                                     done |-> @.done \cup {v}]]
         /\ items' = setLocal(items, key, [Value |-> v, ExpiresAt |-> now + cfg.Expires,
                                           RecheckAt |-> now + cfg.Recheck])
    /\ ev' = NoEv
    /\ UNCHANGED <<now, cfg, redis, lock, pc, op, chan, minted, todo, pub>>
    /\ UNCHANGED nonCache

\* Faulty variant of sendCompletes: the channel has no buffer.
sendCompletesUnbuffered(buffered, receiving) == receiving

\* result <- rt{...}: a send on the channel completes when the buffer has
\* room or a receiver waits in the select.
sendCompletes(buffered, receiving) == buffered < ResultCap \/ receiving

\* An abandoned recompute returns; its send on the buffered channel is
\* never received.  The channel was made for this call and the goroutine
\* is its only sender, so the buffer is empty; the receiver has left.
AbandonedReturn(key) ==
    /\ sendCompletes(0, FALSE)
    /\ \E v \in abandoned[key].running :
         abandoned' = [abandoned EXCEPT ![key] = [running |-> @.running \ {v},
                                                  done |-> @.done \cup {v}]]
    /\ ev' = NoEv
    /\ UNCHANGED <<now, cfg, items, redis, lock, pc, op, chan, minted, todo, pub>>
    /\ UNCHANGED nonCache

\* rc.SetTTL(ctx, key, value, ttl1, ttl2) with a value supplied by the caller.
SetTTL(c, key, ttl1, ttl2, io) ==
    /\ pc[c] = "idle"
    /\ lock = NoOne
    /\ minted < MaxVal
    /\ LET s == setTTL(key, minted + 1, ttl1, ttl2, io) IN
         /\ items' = s.items
         /\ redis' = s.redis
         /\ pub' = [pub EXCEPT ![key] = NoPub]
         /\ ev' = Event("SetTTL", key, minted + 1, TRUE, FALSE, "none", FALSE)
    /\ minted' = minted + 1
    /\ UNCHANGED <<now, cfg, lock, pc, op, chan, abandoned, todo>>
    /\ UNCHANGED nonCache

\* A tick: rc.GetRecheckKeys(ctx) under the lock.  ios/advs give, per key,
\* the outcome of the remote read made for it.
Tick(t, ios, advs) ==
    /\ pc[t] = "idle"
    /\ lock = NoOne
    /\ LET r == [k \in Keys |-> recheckKey(k, ios[k], advs[k])]
           due == {k \in Keys : items[k].present /\ r[k].due}
       IN /\ items' = [k \in Keys |-> IF items[k].present
                                      THEN [present |-> TRUE, item |-> r[k].item]
                                      ELSE items[k]]
          /\ todo' = [todo EXCEPT ![t] = due]
          /\ pc' = [pc EXCEPT ![t] = IF due = {} THEN "idle" ELSE "loop"]
          /\ ev' = LET asked == {k \in Keys : items[k].present /\ r[k].asked}
                   IN Event("Tick", "k1", 0, FALSE, FALSE,
                            IF asked = {} THEN "none"
                            ELSE IF \A k \in asked : ios[k] THEN "ok" ELSE "fail",
                            FALSE)
    /\ UNCHANGED <<now, cfg, redis, lock, op, chan, abandoned, minted, pub>>
    /\ UNCHANGED nonCache

\* The loop of the ticker goroutine: rc.Refresh(ctx, key) for the next key.
TickerRefresh(t, key) ==
    /\ pc[t] = "loop"
    /\ key \in todo[t]
    /\ lock = NoOne
    /\ minted < MaxVal
    /\ todo' = [todo EXCEPT ![t] = @ \ {key}]
    /\ lock' = t
    /\ pc' = [pc EXCEPT ![t] = "select"]
    /\ op' = [op EXCEPT ![t] = [name |-> "Refresh", key |-> key, a |-> 0,
                                deadline |-> now + RefreshTimeout, fnv |-> minted + 1]]
    /\ chan' = [chan EXCEPT ![t] = [NoChan EXCEPT !.st = "running"]]
    /\ minted' = minted + 1
    /\ ev' = NoEv
    /\ UNCHANGED <<now, cfg, items, redis, abandoned, pub>>
    /\ UNCHANGED nonCache

\* rc.Start(t) called by the embedder.  time.NewTicker panics when t is not
\* positive; otherwise a new ticker and a new goroutine ranging over it are
\* created, whatever earlier calls have created.
Start(c, period) ==
    /\ pc[c] = "idle"
    /\ IF period <= 0
       THEN /\ pc' = [pc EXCEPT ![c] = "panic"]
            /\ ev' = Event("Start", "k1", period, FALSE, FALSE, "none", FALSE)
       ELSE \E t \in Refreshers :
              /\ pc[t] = "off"
              /\ \A u \in Tickers : u # t => pc[u] # "off"
              /\ pc' = [pc EXCEPT ![t] = "idle"]
              /\ ev' = Event("Start", "k1", period, TRUE, FALSE, "none", FALSE)
    /\ UNCHANGED <<now, cfg, items, redis, lock, op, chan, abandoned, minted, todo, pub>>
    /\ UNCHANGED nonCache

\* The embedder stops using the cache and drops it.  RefreshCache has no
\* method to stop: nothing of the instance changes.
Teardown(c) ==
    /\ pc[c] = "idle"
    /\ pc' = [pc EXCEPT ![c] = "stopped"]
    /\ ev' = Event("Stop", "k1", 0, TRUE, FALSE, "none", FALSE)
    /\ UNCHANGED <<now, cfg, items, redis, lock, op, chan, abandoned, minted, todo, pub>>
    /\ UNCHANGED nonCache

\* ---- the environment -----------------------------------------------------

\* Another process writes a row under the same fingerprint: a peer running
\* this code with this configuration publishes a value it recomputed
\* ("ok"), or a foreign writer leaves bytes that do not decode ("garbage").
PeerSet(key, kind) ==
    /\ kind = "ok" => minted < MaxVal
    /\ redis' = [redis EXCEPT ![key] =
                   [present |-> TRUE,
                    data |-> IF kind = "garbage"
                             THEN [NoData EXCEPT !.kind = "garbage"]
                             ELSE [kind |-> "ok",
                                   Value |-> minted + 1,
                                   ExpiresAt |-> now + cfg.Expires,
                                   RecheckAt |-> now + cfg.Recheck],
                    ttlAt |-> now + cfg.Expires]]
    /\ minted' = IF kind = "ok" THEN minted + 1 ELSE minted
    /\ ev' = NoEv
    /\ UNCHANGED <<now, cfg, items, lock, pc, op, chan, abandoned, todo, pub>>
    /\ UNCHANGED nonCache

\* Time passes.  A timer that is due fires before the clock moves on; the
\* Redis server drops the rows whose TTL has run out.
ClockTick ==
    /\ now < MaxTime
    /\ \A th \in Threads :
         (pc[th] = "select" /\ chan[th].st = "running") => now < op[th].deadline
    /\ now' = now + 1
    /\ redis' = [k \in Keys |-> IF redis[k].present /\ redis[k].ttlAt <= now + 1
                                THEN NoRecord ELSE redis[k]]
    /\ ev' = NoEv
    /\ UNCHANGED <<cfg, items, lock, pc, op, chan, abandoned, minted, todo, pub>>
    /\ UNCHANGED nonCache

\* One caller, the ticker goroutine, another process and the clock.
Next ==
    \/ \E c \in Callers, k \in HotKeys, io \in BOOLEAN, adv \in BOOLEAN : Check(c, k, io, adv)
    \/ \E c \in Callers, k \in HotKeys, io \in BOOLEAN, adv \in BOOLEAN : Get(c, k, io, adv)
    \/ \E c \in Callers, k \in HotKeys : RefreshCall(c, k)
    \/ \E th \in Threads, err \in BOOLEAN : FnReturn(th, err)
    \/ \E th \in Threads, io \in BOOLEAN : SelectResult(th, io)
    \/ \E th \in Threads : SelectTimeout(th)
    \/ \E k \in Keys : AbandonedReturn(k)
    \/ \E c \in Callers, k \in HotKeys, t1 \in TTLs, t2 \in TTLs, io \in BOOLEAN :
          SetTTL(c, k, t1, t2, io)
    \/ \E t \in Tickers, io \in BOOLEAN, adv \in BOOLEAN :
          Tick(t, [k \in Keys |-> io], [k \in Keys |-> adv])
    \/ \E t \in Tickers, k \in Keys : TickerRefresh(t, k)
    \/ \E k \in HotKeys, kind \in {"ok", "garbage"} : PeerSet(k, kind)
    \/ ClockTick

Spec == Init /\ [][Next]_vars

\* The scheduling of the program.  The ticker delivers ticks for ever and
\* sync.Mutex hands the lock to a goroutine that keeps waiting for it
\* (starvation mode), so the scan and the refresh loop of the goroutine of
\* rc.Start are taken again and again even when callers hold the lock in
\* between; rc.refresh leaves its select by the result or by the timer.
Fairness ==
    /\ SF_vars(\E t \in Tickers, io \in BOOLEAN, adv \in BOOLEAN :
                  Tick(t, [k \in Keys |-> io], [k \in Keys |-> adv]))
    /\ SF_vars(\E t \in Tickers, k \in Keys : TickerRefresh(t, k))
    /\ WF_vars(\E th \in Threads, err \in BOOLEAN : FnReturn(th, err))
    /\ WF_vars(\E th \in Threads, io \in BOOLEAN : SelectResult(th, io))

\* A key is obtained by Get and then left to the refresher, next to a peer.
NextLive ==
    \/ \E c \in Callers, k \in HotKeys, io \in BOOLEAN, adv \in BOOLEAN : Check(c, k, io, adv)
    \/ \E c \in Callers, k \in HotKeys, io \in BOOLEAN, adv \in BOOLEAN : Get(c, k, io, adv)
    \/ \E th \in Threads, err \in BOOLEAN : FnReturn(th, err)
    \/ \E th \in Threads, io \in BOOLEAN : SelectResult(th, io)
    \/ \E th \in Threads : SelectTimeout(th)
    \/ \E k \in Keys : AbandonedReturn(k)
    \/ \E t \in Tickers, io \in BOOLEAN, adv \in BOOLEAN :
          Tick(t, [k \in Keys |-> io], [k \in Keys |-> adv])
    \/ \E t \in Tickers, k \in Keys : TickerRefresh(t, k)
    \/ \E k \in HotKeys : PeerSet(k, "ok")
    \/ ClockTick

SpecLive == Init /\ [][NextLive]_vars /\ Fairness

\* Both keys were obtained by Get when the clock stood at 1, the recompute
\* function returning the zero value, and rc.Start has been called.
InitRefresher ==
    /\ now = 1
    /\ cfg \in [Recheck : Windows, Expires : Windows, redisClient : {"client"}]
    /\ items = [k \in Keys |->
                  [present |-> TRUE,
                   item |-> [Value |-> 0, ExpiresAt |-> 1 + cfg.Expires,
                             RecheckAt |-> 1 + cfg.Recheck]]]
    /\ redis = [k \in Keys |->
                  [present |-> TRUE, data |-> Marshal(items[k].item),
                   ttlAt |-> 1 + cfg.Expires]]
    /\ lock = NoOne
    /\ pc = [th \in Threads |-> IF th \in Restarts THEN "off" ELSE "idle"]
    /\ op = [th \in Threads |-> NoOp]
    /\ chan = [th \in Threads |-> NoChan]
    /\ abandoned = [k \in Keys |-> NoneAbandoned]
    /\ minted = 0
    /\ todo = [t \in Refreshers |-> {}]
    /\ pub = [k \in Keys |-> [set |-> TRUE, v |-> 0, exp |-> 1 + cfg.Expires]]
    /\ ev = NoEv
    /\ InitNonCache

\* The refresher at work on two keys, each remote read of a scan with its
\* own outcome, and a caller that only looks.
NextRefresher ==
    \/ \E c \in Callers, k \in Keys, io \in BOOLEAN, adv \in BOOLEAN : Check(c, k, io, adv)
    \/ \E th \in Threads, err \in BOOLEAN : FnReturn(th, err)
    \/ \E th \in Threads, io \in BOOLEAN : SelectResult(th, io)
    \/ \E th \in Threads : SelectTimeout(th)
    \/ \E k \in Keys : AbandonedReturn(k)
    \/ \E t \in Tickers, ios \in [Keys -> BOOLEAN], adv \in BOOLEAN :
          Tick(t, ios, [k \in Keys |-> adv])
    \/ \E t \in Tickers, k \in Keys : TickerRefresh(t, k)
    \/ ClockTick

\* The scheduling of the goroutine of rc.Start, as in Fairness.
FairnessRefresher ==
    /\ SF_vars(\E t \in Tickers, ios \in [Keys -> BOOLEAN], adv \in BOOLEAN :
                  Tick(t, ios, [k \in Keys |-> adv]))
    /\ SF_vars(\E t \in Tickers, k \in Keys : TickerRefresh(t, k))
    /\ WF_vars(\E th \in Threads, err \in BOOLEAN : FnReturn(th, err))
    /\ WF_vars(\E th \in Threads, io \in BOOLEAN : SelectResult(th, io))

SpecRefresher == InitRefresher /\ [][NextRefresher]_vars /\ FairnessRefresher

\* NewRefreshCache, and no call of rc.Start yet.
InitStart ==
    /\ now = 1
    /\ cfg \in [Recheck : Windows, Expires : Windows, redisClient : {"client"}]
    /\ items = [k \in Keys |-> NoRow]
    /\ redis = [k \in Keys |-> NoRecord]
    /\ lock = NoOne
    /\ pc = [th \in Threads |-> IF th \in Refreshers THEN "off" ELSE "idle"]
    /\ op = [th \in Threads |-> NoOp]
    /\ chan = [th \in Threads |-> NoChan]
    /\ abandoned = [k \in Keys |-> NoneAbandoned]
    /\ minted = 0
    /\ todo = [t \in Refreshers |-> {}]
    /\ pub = [k \in Keys |-> NoPub]
    /\ ev = NoEv
    /\ InitNonCache

\* A goroutine has panicked and nobody recovers: the process has ended.
Crashed == \E th \in Threads : pc[th] = "panic"

\* The life of an instance: the embedder starts the refresher, any number
\* of times, uses the cache and drops it.
NextStart ==
    \/ ~Crashed /\ \E c \in Callers, p \in Periods : Start(c, p)
    \/ ~Crashed /\ \E c \in Callers : Teardown(c)
    \/ ~Crashed /\ \E c \in Callers, k \in HotKeys, io \in BOOLEAN, adv \in BOOLEAN :
                     Check(c, k, io, adv)
    \/ ~Crashed /\ \E c \in Callers, k \in HotKeys, io \in BOOLEAN, adv \in BOOLEAN :
                     Get(c, k, io, adv)
    \/ ~Crashed /\ \E th \in Threads, err \in BOOLEAN : FnReturn(th, err)
    \/ ~Crashed /\ \E th \in Threads, io \in BOOLEAN : SelectResult(th, io)
    \/ ~Crashed /\ \E th \in Threads : SelectTimeout(th)
    \/ ~Crashed /\ \E k \in Keys : AbandonedReturn(k)
    \/ ~Crashed /\ \E t \in Refreshers, io \in BOOLEAN, adv \in BOOLEAN :
                     Tick(t, [k \in Keys |-> io], [k \in Keys |-> adv])
    \/ ~Crashed /\ \E t \in Refreshers, k \in Keys : TickerRefresh(t, k)
    \/ ~Crashed /\ ClockTick

SpecStart == InitStart /\ [][NextStart]_vars

\* ---- the metering cache: CacheMeterProvider over Cache[K, T] --------------

\* The recompute function that NewCacheMeterProvider gives to the cache.  The
\* user is looked up by key.User in the users passed by GetValue; without
\* it the function panics; with it the provider is asked for the value and
\* the user is cleared from the map.  A CacheMeterKey is identified with
\* its User field.
refreshFn(us, key, val) ==
    IF key \notin us
    THEN [panic |-> TRUE, users |-> us, Value |-> 0]
    ELSE [panic |-> FALSE, users |-> us \ {key}, Value |-> val]

\* rc.chainCache.Get: an entry that has not run out.
chainGet(key) == chain[key].present /\ chain[key].ExpiresAt > now

\* CacheMeterProvider.GetValue(user, ...): the user is passed through the
\* map, then cache.Get: a cached entry is returned, otherwise the loader
\* calls rc.Refresh, which runs the recompute function, and the entry is
\* stored; the recheck time of the entry goes to rc.localKeys.
GetValue(c, user, val) ==
    LET key == user
        r == refreshFn(users \cup {user}, key, val) IN
    /\ pc[c] = "idle"
    /\ IF chainGet(key)
       THEN /\ users' = users \cup {user}
            /\ chain' = chain
            /\ localKeys' = [localKeys EXCEPT ![key] =
                                [present |-> TRUE, RecheckAt |-> chain[key].RecheckAt]]
       ELSE /\ users' = r.users
            /\ chain' = [chain EXCEPT ![key] =
                            [present |-> TRUE, Value |-> r.Value,
                             RecheckAt |-> now + cfg.Recheck,
                             ExpiresAt |-> now + cfg.Expires]]
            /\ localKeys' = [localKeys EXCEPT ![key] =
                                [present |-> TRUE, RecheckAt |-> now + cfg.Recheck]]
    /\ UNCHANGED <<cacheVars, topicVars, jobVars, limitVars>>

\* The keys of rc.localKeys whose recheck time has passed.
autoRefreshKeys == {k \in MeterKeys : localKeys[k].present /\ now > localKeys[k].RecheckAt}

\* One tick of the goroutine of Cache.Start: every key of rc.localKeys
\* whose recheck time has passed is recomputed by rc.Refresh, stored and
\* registered again.  A panic of the recompute function ends the process.
\* todo[t] keeps the keys slice of the tick, the keys it took for due.
AutoRefresh(t, val) ==
    LET keys == autoRefreshKeys IN
    /\ pc[t] = "idle"
    /\ todo' = [todo EXCEPT ![t] = keys]
    /\ ev' = Event("AutoRefresh", "k1", 0, FALSE, FALSE, "none", FALSE)
    /\ IF \E k \in keys : refreshFn(users, k, val).panic
       THEN /\ pc' = [pc EXCEPT ![t] = "panic"]
            /\ UNCHANGED <<users, localKeys, chain>>
       ELSE /\ pc' = pc
            /\ users' = users \ keys
            /\ chain' = [k \in MeterKeys |->
                            IF k \in keys
                            THEN [present |-> TRUE, Value |-> val,
                                  RecheckAt |-> now + cfg.Recheck,
                                  ExpiresAt |-> now + cfg.Expires]
                            ELSE chain[k]]
            /\ localKeys' = [k \in MeterKeys |->
                                IF k \in keys
                                THEN [present |-> TRUE, RecheckAt |-> now + cfg.Recheck]
                                ELSE localKeys[k]]
    /\ UNCHANGED <<now, cfg, items, redis, lock, op, chan, abandoned, minted, pub>>
    /\ UNCHANGED <<topicVars, jobVars, limitVars>>

\* A metering provider in use: users ask for values, the cache rechecks.
NextMeter ==
    \/ ~Crashed /\ \E c \in Callers, u \in MeterKeys, val \in 1..MaxVal : GetValue(c, u, val)
    \/ ~Crashed /\ \E t \in Tickers, val \in 1..MaxVal : AutoRefresh(t, val)
    \/ ~Crashed /\ ClockTick

SpecMeter == Init /\ [][NextMeter]_vars

\* ---- fingerprints of the instances on one Redis server --------------------

\* Two instances, each constructed with a keyPrefix of its own choice.
InitTopic ==
    /\ now = 1
    /\ cfg \in [Recheck : {ShortWindow}, Expires : {LongWindow}, redisClient : {"client"}]
    /\ items = [k \in Keys |-> NoRow]
    /\ redis = [k \in Keys |-> NoRecord]
    /\ lock = NoOne
    /\ pc = [th \in Threads |-> IF th \in Restarts THEN "off" ELSE "idle"]
    /\ op = [th \in Threads |-> NoOp]
    /\ chan = [th \in Threads |-> NoChan]
    /\ abandoned = [k \in Keys |-> NoneAbandoned]
    /\ minted = 0
    /\ todo = [t \in Refreshers |-> {}]
    /\ pub = [k \in Keys |-> NoPub]
    /\ ev = NoEv
    /\ InitMeter
    /\ InitJobs
    /\ InitLimitIdle
    /\ \E p \in [Instances -> Prefixes] :
          topic = [i \in Instances |-> NewRefreshCache(p[i])]
    /\ ekey = [i \in Instances |-> NoKey]

\* An instance computes the fingerprint of a key, as getRedis and setRedis
\* do before they go to the server.
RedisKey(i, key) ==
    /\ ekey' = [ekey EXCEPT ![i] =
                   [called |-> TRUE, key |-> key, ekey |-> redisKey(topic[i], key)]]
    /\ UNCHANGED <<cacheVars, meterVars, topic, jobVars, limitVars>>

NextTopic == \E i \in Instances, key \in CacheKeys : RedisKey(i, key)

SpecTopic == InitTopic /\ [][NextTopic]_vars

\* ---- the job queue LocalJobs ----------------------------------------------

\* f.Use(mwf): before Run, with a middleware not yet in use.
Use(m) ==
    /\ runner = "idle"
    /\ \A i \in 1..Len(f.middlewares) : f.middlewares[i] # m
    /\ f' = [f EXCEPT !.middlewares = Append(@, m)]
    /\ hist' = [hist EXCEPT !.last = NoLast]
    /\ UNCHANGED <<queue, wk, runner>>
    /\ UNCHANGED <<cacheVars, meterVars, topicVars, limitVars, adder>>

\* Faulty variant of alreadyLocked: Unique is not looked at.
alreadyLockedAnyJob(job, uniqueJobs) == HexKey(job) \in uniqueJobs

\* AddJob: a unique job whose key is in f.uniqueJobs is not added.
alreadyLocked(job, uniqueJobs) == job.Unique /\ HexKey(job) \in uniqueJobs

\* The body of f.AddJob(ctx, job): "closed" once Stop has set f.jobs to
\* nil; a unique job is handled under f.uniqueJobsLock, taken when it is
\* free and released by defer as the call returns: one that is already
\* locked is dropped with a nil error; any other job is sent to the channel,
\* a unique one after its key is locked.
addJob(job) ==
    /\ hist.added < MaxJobs
    /\ (job.Unique /\ f.jobs = "chan") => f.uniqueJobsLock = NoOne
    /\ IF f.jobs = "nil"
       THEN /\ hist' = [hist EXCEPT !.last = [op |-> "AddJob", job |-> job, id |-> 0,
                                              err |-> "closed"]]
            /\ UNCHANGED <<f, queue>>
       ELSE IF alreadyLocked(job, f.uniqueJobs)
       THEN /\ hist' = [hist EXCEPT !.last = [op |-> "AddJob", job |-> job, id |-> 0, err |-> "nil"]]
            /\ UNCHANGED <<f, queue>>
       ELSE LET id == hist.added + 1 IN
            /\ f' = [f EXCEPT !.uniqueJobs =
                        IF job.Unique THEN @ \cup {HexKey(job)} ELSE @]
            /\ queue' = [queue EXCEPT !.buf = Append(@, [job |-> job, id |-> id])]
            /\ hist' = [hist EXCEPT !.added = id, !.jobs[id] = job,
                                    !.last = [op |-> "AddJob", job |-> job, id |-> id, err |-> "nil"]]

\* f.AddJob(ctx, job) called by a goroutine of the embedder.
AddJob(job) ==
    /\ addJob(job)
    /\ UNCHANGED <<wk, runner>>
    /\ UNCHANGED <<cacheVars, meterVars, topicVars, limitVars, adder>>

\* f.Run(ctx) up to <-f.ctx.Done(): the context is made, f.running is set
\* and one goroutine is started for each job function.
Run ==
    /\ runner = "idle"
    /\ ~f.running
    /\ f' = [f EXCEPT !.running = TRUE, !.cancelled = FALSE]
    /\ wk' = [w \in Workers |-> [NoWork EXCEPT !.pc = "start"]]
    /\ runner' = "wait"
    /\ hist' = [hist EXCEPT !.last = NoLast]
    /\ UNCHANGED queue
    /\ UNCHANGED <<cacheVars, meterVars, topicVars, limitVars, adder>>

\* A goroutine of Run evaluates f.jobs, once, for its range loop.  The read
\* is not synchronised with Stop: after Stop has stored nil the goroutine
\* may get the channel or nil, and a range over a nil channel blocks for
\* ever.
WorkerStart(w, seen) ==
    /\ wk[w].pc = "start"
    /\ seen \in (IF f.jobs = "chan" THEN {"chan"} ELSE {"chan", "nil"})
    /\ wk' = [wk EXCEPT ![w].pc = IF seen = "chan" THEN "recv" ELSE "blocked"]
    /\ hist' = [hist EXCEPT !.last = NoLast]
    /\ UNCHANGED <<f, queue, runner>>
    /\ UNCHANGED <<cacheVars, meterVars, topicVars, limitVars, adder>>

\* Faulty variant of deadlinePassed: a deadline of this very second counts
\* as passed.
deadlinePassedInclusive(job, t) == job.JobDeadline > 0 /\ job.JobDeadline <= t

\* RunJob: job.JobDeadline > 0 && job.JobDeadline < now.
deadlinePassed(job, t) == job.JobDeadline > 0 /\ job.JobDeadline < t

\* Faulty variant of wrapAll: the middlewares are not applied.
wrapAllBare(w, mws) == w

\* RunJob: for _, mwf := range f.middlewares { w = mwf(w) }.  A worker is
\* the sequence of the Run methods that a call of its Run enters, the
\* outermost first.
RECURSIVE wrapAll(_, _)
wrapAll(w, mws) ==
    IF mws = <<>> THEN w ELSE wrapAll(<<Head(mws)>> \o w, Tail(mws))

\* A goroutine of Run receives a job and calls f.RunJob(ctx, job), up to
\* w.Run: a job whose deadline has passed is skipped; for a unique job
\* f.uniqueJobsLock is taken, to be released by defer when RunJob returns,
\* and the key is unlocked; the runner of the job type is wrapped in the
\* middlewares.  (A unique job is shown leaving the channel at the moment
\* its goroutine gets the lock.)
Receive(w) ==
    /\ wk[w].pc = "recv"
    /\ queue.buf # <<>>
    /\ LET e == Head(queue.buf) IN
       /\ queue' = [queue EXCEPT !.buf = Tail(@)]
       /\ IF deadlinePassed(e.job, now)
          THEN /\ hist' = [hist EXCEPT !.skipped = @ \cup {e.id},
                                       !.last = NoLast]
               /\ UNCHANGED <<f, wk>>
          ELSE /\ e.job.Unique => f.uniqueJobsLock = NoOne
               /\ f' = [f EXCEPT !.uniqueJobs =
                           IF e.job.Unique THEN @ \ {HexKey(e.job)} ELSE @,
                                 !.uniqueJobsLock = IF e.job.Unique THEN w ELSE @]
               /\ wk' = [wk EXCEPT ![w] = [pc |-> "run", job |-> e.job, id |-> e.id,
                                           w |-> wrapAll(<<"worker">>, f.middlewares),
                                           adding |-> NoJob]]
               /\ hist' = [hist EXCEPT !.last = NoLast]
    /\ UNCHANGED runner
    /\ UNCHANGED <<cacheVars, meterVars, topicVars, limitVars, adder>>

\* How often name occurs in the sequence w.
Count(w, name) == Cardinality({i \in 1..Len(w) : w[i] = name})

\* w.Run(ctx, job) returns: every Run method of the wrapped worker has been
\* entered, the job worker's own last; RunJob returns and its deferred
\* Unlock runs.
Finish(w) ==
    /\ wk[w].pc = "run"
    /\ hist' = [hist EXCEPT
                  !.ran[wk[w].id] = @ + Count(wk[w].w, "worker"),
                  !.mw[wk[w].id] = [m \in Middlewares |-> @[m] + Count(wk[w].w, m)],
                  !.last = NoLast]
    /\ wk' = [wk EXCEPT ![w] = [NoWork EXCEPT !.pc = "recv"]]
    /\ f' = [f EXCEPT !.uniqueJobsLock = IF @ = w THEN NoOne ELSE @]
    /\ UNCHANGED <<queue, runner>>
    /\ UNCHANGED <<cacheVars, meterVars, topicVars, limitVars, adder>>

\* The worker of a running job calls f.AddJob(ctx, job) from its Run
\* method.  A unique job needs f.uniqueJobsLock: when the lock is held,
\* by another goroutine or by RunJob of this very goroutine, the call
\* blocks in Lock().
AddJobInRun(w, job) ==
    /\ wk[w].pc = "run"
    /\ IF job.Unique /\ f.jobs = "chan" /\ f.uniqueJobsLock # NoOne
       THEN /\ hist.added < MaxJobs
            /\ wk' = [wk EXCEPT ![w].pc = "lockwait", ![w].adding = job]
            /\ hist' = [hist EXCEPT !.last = NoLast]
            /\ UNCHANGED <<f, queue>>
       ELSE addJob(job) /\ UNCHANGED wk
    /\ UNCHANGED runner
    /\ UNCHANGED <<cacheVars, meterVars, topicVars, limitVars, adder>>

\* The call of AddJob that blocked in Lock() gets the lock and goes on.
AddJobLocked(w) ==
    /\ wk[w].pc = "lockwait"
    /\ addJob(wk[w].adding)
    /\ wk' = [wk EXCEPT ![w].pc = "run", ![w].adding = NoJob]
    /\ UNCHANGED runner
    /\ UNCHANGED <<cacheVars, meterVars, topicVars, limitVars, adder>>

\* The range loop of a goroutine of Run ends: the channel is closed and
\* drained.
WorkerExit(w) ==
    /\ wk[w].pc = "recv"
    /\ queue.buf = <<>>
    /\ queue.closed
    /\ wk' = [wk EXCEPT ![w].pc = "done"]
    /\ hist' = [hist EXCEPT !.last = NoLast]
    /\ UNCHANGED <<f, queue, runner>>
    /\ UNCHANGED <<cacheVars, meterVars, topicVars, limitVars, adder>>

\* f.Stop(ctx): "not running" before Run; otherwise the channel is closed,
\* the context of Run is cancelled and f.jobs becomes nil.
Stop ==
    /\ ~hist.stopped
    /\ IF ~f.running
       THEN /\ hist' = [hist EXCEPT !.last = [NoLast EXCEPT !.op = "Stop",
                                              !.err = "not running"]]
            /\ UNCHANGED <<f, queue>>
       ELSE /\ queue' = [queue EXCEPT !.closed = TRUE]
            /\ f' = [f EXCEPT !.cancelled = TRUE, !.running = FALSE, !.jobs = "nil"]
            /\ hist' = [hist EXCEPT !.stopped = TRUE,
                                    !.last = [NoLast EXCEPT !.op = "Stop"]]
    /\ UNCHANGED <<wk, runner>>
    /\ UNCHANGED <<cacheVars, meterVars, topicVars, limitVars, adder>>

\* f.Run(ctx) returns: <-f.ctx.Done() is passed once Stop has called
\* f.cancel.
RunReturn ==
    /\ runner = "wait"
    /\ f.cancelled
    /\ runner' = "returned"
    /\ hist' = [hist EXCEPT !.last = NoLast]
    /\ UNCHANGED <<f, queue, wk>>
    /\ UNCHANGED <<cacheVars, meterVars, topicVars, limitVars, adder>>

\* NewRefreshCache with its default windows, nothing called.
InitJobQueue ==
    /\ now = 1
    /\ cfg = [Recheck |-> LongWindow, Expires |-> LongWindow, redisClient |-> "nil"]
    /\ items = [k \in Keys |-> NoRow]
    /\ redis = [k \in Keys |-> NoRecord]
    /\ lock = NoOne
    /\ pc = [th \in Threads |-> IF th \in Restarts THEN "off" ELSE "idle"]
    /\ op = [th \in Threads |-> NoOp]
    /\ chan = [th \in Threads |-> NoChan]
    /\ abandoned = [k \in Keys |-> NoneAbandoned]
    /\ minted = 0
    /\ todo = [t \in Refreshers |-> {}]
    /\ pub = [k \in Keys |-> NoPub]
    /\ ev = NoEv
    /\ InitNonCache

\* A queue in use: jobs are added, Run is called once and stopped once.
NextJobs ==
    \/ \E m \in Middlewares : Use(m)
    \/ \E job \in JobInputs : AddJob(job)
    \/ Run
    \/ \E w \in Workers, seen \in {"chan", "nil"} : WorkerStart(w, seen)
    \/ \E w \in Workers : Receive(w)
    \/ \E w \in Workers : Finish(w)
    \/ \E w \in Workers : WorkerExit(w)
    \/ Stop
    \/ RunReturn
    \/ ClockTick

SpecJobs == InitJobQueue /\ [][NextJobs]_vars

\* f.AddJob(ctx, job) of a job that is not unique, up to its send: f.jobs
\* is compared with nil; nothing is locked.
AddJobBegin(job) ==
    /\ adder.pc = "idle"
    /\ ~job.Unique
    /\ hist.added < MaxJobs
    /\ IF f.jobs = "nil"
       THEN /\ hist' = [hist EXCEPT !.last = [op |-> "AddJob", job |-> job, id |-> 0,
                                              err |-> "closed"]]
            /\ UNCHANGED adder
       ELSE /\ adder' = [pc |-> "send", job |-> job]
            /\ hist' = [hist EXCEPT !.last = NoLast]
    /\ UNCHANGED <<f, queue, wk, runner>>
    /\ UNCHANGED <<cacheVars, meterVars, topicVars, limitVars>>

\* f.jobs <- job.  The field is read again, unsynchronised with Stop: once
\* Stop has stored nil the goroutine may get the channel or nil.  A send on
\* the channel that Stop has closed panics; a send on a nil channel blocks
\* for ever.
AddJobSend(seen) ==
    /\ adder.pc = "send"
    /\ seen \in (IF f.jobs = "chan" THEN {"chan"} ELSE {"chan", "nil"})
    /\ IF seen = "nil"
       THEN /\ adder' = [adder EXCEPT !.pc = "blocked"]
            /\ hist' = [hist EXCEPT !.last = NoLast]
            /\ UNCHANGED queue
       ELSE IF queue.closed
       THEN /\ adder' = [adder EXCEPT !.pc = "panic"]
            /\ hist' = [hist EXCEPT !.last = NoLast]
            /\ UNCHANGED queue
       ELSE LET id == hist.added + 1 IN
            /\ queue' = [queue EXCEPT !.buf = Append(@, [job |-> adder.job, id |-> id])]
            /\ hist' = [hist EXCEPT !.added = id, !.jobs[id] = adder.job,
                                    !.last = [op |-> "AddJob", job |-> adder.job,
                                              id |-> id, err |-> "nil"]]
            /\ adder' = [pc |-> "idle", job |-> NoJob]
    /\ UNCHANGED <<f, wk, runner>>
    /\ UNCHANGED <<cacheVars, meterVars, topicVars, limitVars>>

\* f.Run(ctx) called while f.running is set: "already running".
RunAgain ==
    /\ f.running
    /\ hist' = [hist EXCEPT !.last = [NoLast EXCEPT !.op = "Run",
                                                    !.err = "already running"]]
    /\ UNCHANGED <<f, queue, wk, runner>>
    /\ UNCHANGED <<cacheVars, meterVars, topicVars, limitVars, adder>>

\* A goroutine has panicked in AddJob: the process has ended.
Panicked == adder.pc = "panic"

\* A queue whose embedder adds jobs from one goroutine while another calls
\* Run and Stop.
NextClose ==
    \/ ~Panicked /\ \E job \in JobInputs : AddJobBegin(job)
    \/ ~Panicked /\ \E seen \in {"chan", "nil"} : AddJobSend(seen)
    \/ ~Panicked /\ Run
    \/ ~Panicked /\ RunAgain
    \/ ~Panicked /\ \E w \in Workers, seen \in {"chan", "nil"} : WorkerStart(w, seen)
    \/ ~Panicked /\ \E w \in Workers : Receive(w)
    \/ ~Panicked /\ \E w \in Workers : Finish(w)
    \/ ~Panicked /\ \E w \in Workers : WorkerExit(w)
    \/ ~Panicked /\ Stop
    \/ ~Panicked /\ RunReturn

SpecClose == InitJobQueue /\ [][NextClose]_vars

\* ---- LimitMeter in use

\* The provider as the embedder configures it: Enabled set or not, one
\* default limit, and a user with or without a limit of their own.
InitLimiter ==
    /\ now = 1
    /\ cfg = [Recheck |-> LongWindow, Expires |-> LongWindow, redisClient |-> "nil"]
    /\ items = [k \in Keys |-> NoRow]
    /\ redis = [k \in Keys |-> NoRecord]
    /\ lock = NoOne
    /\ pc = [th \in Threads |-> IF th \in Restarts THEN "off" ELSE "idle"]
    /\ op = [th \in Threads |-> NoOp]
    /\ chan = [th \in Threads |-> NoChan]
    /\ abandoned = [k \in Keys |-> NoneAbandoned]
    /\ minted = 0
    /\ todo = [t \in Refreshers |-> {}]
    /\ pub = [k \in Keys |-> NoPub]
    /\ ev = NoEv
    /\ InitMeter /\ InitTopicIdle /\ InitJobs
    /\ \E en \in BOOLEAN, lim \in Limits, ul \in {<<>>, <<GkLimit>>} :
          limiter = [Enabled |-> en, DefaultLimits |-> <<lim>>, userLimits |-> ul,
                     events |-> <<>>, last |-> NoCall]

\* LimitMeter.Meter(ctx, event): handed to the meter of the provider, whose
\* sendMeter appends the event with the time of the call.
LimitMeterMeter(meterName, value, dims) ==
    /\ Len(limiter.events) < MaxEvents
    /\ limiter' = [limiter EXCEPT
                     !.events = Append(@, [meterName |-> meterName, value |-> value,
                                           time |-> now, dims |-> dims]),
                     !.last = [NoCall EXCEPT !.op = "Meter"]]
    /\ UNCHANGED <<cacheVars, meterVars, topicVars, jobVars>>

\* LimitMeter.Check(ctx, meterName, value, extraDimensions).
LimitMeterCheck(meterName, value, dims) ==
    /\ limiter' = [limiter EXCEPT
                     !.last = [op |-> "Check", meterName |-> meterName, value |-> value,
                               dims |-> dims,
                               ok |-> IF ~limiter.Enabled THEN TRUE
                                      ELSE checkLimits(GetLimits(meterName, dims), value)]]
    /\ UNCHANGED <<cacheVars, meterVars, topicVars, jobVars>>

\* A user meters events and asks whether more would pass the limits.
NextLimit ==
    \/ \E dims \in {Foo, Bar} : LimitMeterMeter("testmeter", 1, dims)
    \/ \E m \in MeterNames, v \in 1..MaxVal, dims \in {Foo, Bar} : LimitMeterCheck(m, v, dims)
    \/ ClockTick

SpecLimit == InitLimiter /\ [][NextLimit]_vars

\* The unique jobs without a deadline.
UniqueInputs == {j \in JobInputs : j.Unique /\ j.JobDeadline = 0}

\* A queue whose workers add unique jobs while they run.
NextNested ==
    \/ \E job \in UniqueInputs : AddJob(job)
    \/ Run
    \/ \E w \in Workers : WorkerStart(w, "chan")
    \/ \E w \in Workers : Receive(w)
    \/ \E w \in Workers : Finish(w)
    \/ \E w \in Workers, job \in UniqueInputs : AddJobInRun(w, job)
    \/ \E w \in Workers : AddJobLocked(w)
    \/ \E w \in Workers : WorkerExit(w)
    \/ Stop
    \/ RunReturn

SpecNested == InitJobQueue /\ [][NextNested]_vars

\* NewRefreshCache called with a nil redisClient.
InitNil ==
    /\ now = 1
    /\ cfg \in [Recheck : Windows, Expires : Windows, redisClient : {"nil"}]
    /\ items = [k \in Keys |-> NoRow]
    /\ redis = [k \in Keys |-> NoRecord]
    /\ lock = NoOne
    /\ pc = [th \in Threads |-> IF th \in Restarts THEN "off" ELSE "idle"]
    /\ op = [th \in Threads |-> NoOp]
    /\ chan = [th \in Threads |-> NoChan]
    /\ abandoned = [k \in Keys |-> NoneAbandoned]
    /\ minted = 0
    /\ todo = [t \in Refreshers |-> {}]
    /\ pub = [k \in Keys |-> NoPub]
    /\ ev = NoEv
    /\ InitNonCache

\* The same program without a remote client; the server, which other
\* processes go on using, is out of its reach.
SpecNil == InitNil /\ [][Next]_vars

\* Two callers of one instance: the second one calls Get when the lock is
\* free, or while the first holds the lock and then blocks on it.
NextFlight ==
    \/ \E c \in Callers, k \in HotKeys, io \in BOOLEAN, adv \in BOOLEAN : Check(c, k, io, adv)
    \/ \E c \in Callers \cup Waiters, k \in HotKeys, io \in BOOLEAN, adv \in BOOLEAN :
          Get(c, k, io, adv)
    \/ \E c \in Waiters, k \in HotKeys : GetBlock(c, k)
    \/ \E c \in Waiters, io \in BOOLEAN, adv \in BOOLEAN : GetUnblock(c, io, adv)
    \/ \E c \in Callers, k \in HotKeys : RefreshCall(c, k)
    \/ \E th \in Threads, err \in BOOLEAN : FnReturn(th, err)
    \/ \E th \in Threads, io \in BOOLEAN : SelectResult(th, io)
    \/ \E th \in Threads : SelectTimeout(th)
    \/ \E k \in Keys : AbandonedReturn(k)
    \/ \E c \in Callers, k \in HotKeys, t1 \in TTLs, t2 \in TTLs, io \in BOOLEAN :
          SetTTL(c, k, t1, t2, io)
    \/ \E k \in HotKeys, kind \in {"ok", "garbage"} : PeerSet(k, kind)
    \/ ClockTick

SpecFlight == Init /\ [][NextFlight]_vars

\* Two callers whose recompute function may never return and whose remote
\* tier may never answer.
NextReturn ==
    \/ \E c \in Callers, k \in HotKeys, io \in BOOLEAN, adv \in BOOLEAN : Check(c, k, io, adv)
    \/ \E c \in Callers \cup Waiters, k \in HotKeys, io \in BOOLEAN, adv \in BOOLEAN :
          Get(c, k, io, adv)
    \/ \E c \in Waiters, k \in HotKeys : GetBlock(c, k)
    \/ \E c \in Waiters, io \in BOOLEAN, adv \in BOOLEAN : GetUnblock(c, io, adv)
    \/ \E c \in Callers, k \in HotKeys : RefreshCall(c, k)
    \/ \E th \in Threads, err \in BOOLEAN : FnReturn(th, err)
    \/ \E th \in Threads, io \in BOOLEAN : SelectResult(th, io)
    \/ \E th \in Threads : SelectTimeout(th)
    \/ \E k \in Keys : AbandonedReturn(k)
    \/ ClockTick

\* The scheduling of the program when nothing is assumed of the recompute
\* function: time passes, the timer of time.After fires, a select with a
\* result on its channel takes it, and sync.Mutex hands the lock to a
\* goroutine that keeps waiting for it.  There is no condition on FnReturn.
FairnessReturn ==
    /\ WF_vars(ClockTick)
    /\ WF_vars(\E th \in Threads : SelectTimeout(th))
    /\ WF_vars(\E th \in Threads, io \in BOOLEAN : SelectResult(th, io))
    /\ SF_vars(\E c \in Waiters, io \in BOOLEAN, adv \in BOOLEAN : GetUnblock(c, io, adv))

SpecReturn == Init /\ [][NextReturn]_vars /\ FairnessReturn

\* The scheduling when the recompute function does return: the goroutine
\* that called it is scheduled to send the result, whether its caller still
\* waits in the select or has timed out.
FairnessGoroutine ==
    /\ FairnessReturn
    /\ WF_vars(\E th \in Threads, err \in BOOLEAN : FnReturn(th, err))
    /\ WF_vars(\E k \in Keys : AbandonedReturn(k))

SpecGoroutine == Init /\ [][NextReturn]_vars /\ FairnessGoroutine

\* ---- properties ----------------------------------------------------------

\* The row of a tier carries an expiry that lies before now.
LocalExpired(k) == items[k].present /\ items[k].item.ExpiresAt < now
RemoteExpired(k) ==
    /\ redis[k].present
    /\ redis[k].data.kind # "garbage"
    /\ redis[k].data.ExpiresAt < now

\* The event of a Check or of the check phase of a Get for key k.
ImmediateRead(e, k) ==
    /\ e.key = k
    /\ e.op = "Check" \/ e.op = "GetMiss" \/ (e.op = "Get" /\ ~e.called)

\* C1: when every entry stored for k, in the local tier and in the remote
\* tier, has expires_at < now (or nothing is stored), a Check(k) made now
\* returns absent and a Get(k) made now is not answered from a tier: it
\* goes to the loader.
C1_NoUnexpiredFromMiss ==
    [][\A k \in Keys :
         ( /\ items[k].present => LocalExpired(k)
           /\ redis[k].present => RemoteExpired(k)
           /\ ImmediateRead(ev', k) )
         => /\ ~ev'.ok
            /\ ev'.op # "Check" => (ev'.op = "GetMiss" /\ ev'.called)]_vars

\* C1 witness: a Check found an expired row in both tiers and returned absent.
C1_Witness ==
    \E k \in Keys :
        /\ ev.op = "Check" /\ ev.key = k /\ ~ev.ok /\ ev.rd = "ok"
        /\ LocalExpired(k) /\ RemoteExpired(k)

\* C2: after a Get(k) or Refresh(k) of this instance succeeded with value v,
\* every later Check(k) made before expires_at(v) returns v or a value
\* written after v: never a miss, never a value written before v.  (pub[k]
\* is that v and its expiry, as long as no SetTTL replaced the entry; the
\* formula looks at the Checks made while the remote tier holds nothing or
\* a well-formed entry.)
C2_MonotonicReads ==
    \A k \in Keys :
        ( /\ ev.op = "Check" /\ ev.key = k
          /\ pub[k].set /\ now < pub[k].exp
          /\ redis[k].data.kind \in {"none", "ok"} )
        => (ev.ok /\ ev.val >= pub[k].v)

\* C3: single flight.  At most one thread of the instance waits for a
\* recompute at any time; and a Get(k) that was blocked while another Get(k)
\* missed, recomputed and published v returns v from the cache without
\* invoking the recompute function.
C3_SingleFlight ==
    /\ [](Cardinality({th \in Threads : pc[th] = "select"}) <= 1)
    /\ [][\A w \in Waiters :
            ( /\ pc[w] = "get_lock" /\ pc'[w] # "get_lock"
              /\ ev.op = "Get" /\ ev.called /\ ev.ok /\ ~ev.waited
              /\ ev.key = op[w].key )
            => /\ ev' = Event("Get", ev.key, ev.val, TRUE, FALSE, "none", TRUE)
               /\ minted' = minted]_vars

\* C3 witness: a Get that had blocked on the lock returned the published
\* value without a recompute of its own.
C3_Witness ==
    \E k \in Keys :
        /\ ev.op = "Get" /\ ev.key = k /\ ev.waited /\ ev.ok /\ ~ev.called
        /\ pub[k].set /\ ev.val = pub[k].v

\* C4: miss then hit.  A Get(k) whose recompute yields v returns (v, true);
\* a Check(k) or Get(k) that follows it immediately returns (v, true), and a
\* Get(k) that immediately follows such a Check(k) does so too; none of them
\* invokes the recompute function.
C4_MissThenHit ==
    [][ /\ \A th \in Threads :
             ( /\ pc[th] = "select" /\ pc'[th] # "select"
               /\ op[th].name = "Get"
               /\ chan[th].st = "sent" /\ ~chan[th].err )
             => /\ ev'.op = "Get" /\ ev'.key = op[th].key
                /\ ev'.val = chan[th].item /\ ev'.ok
        /\ ( /\ ev.ok
             /\ (ev.op = "Get" /\ ev.called) \/ (ev.op = "Check" /\ ev'.op # "Check")
             /\ ImmediateRead(ev', ev.key) )
           => /\ ev'.op # "GetMiss"
              /\ ev'.ok /\ ev'.val = ev.val /\ ~ev'.called
              /\ minted' = minted ]_vars

\* C4 witness: from empty tiers a Get recomputed the first value, and the
\* Get right after it returned that value as a hit.
C4_Witness ==
    \E k \in Keys :
        /\ ev.op = "Get" /\ ev.key = k /\ ev.ok /\ ~ev.called /\ ~ev.waited
        /\ minted = 1 /\ pub[k].set /\ pub[k].v = 1 /\ ev.val = 1

\* C5: a Get(k) that finds no unexpired entry and whose refresh fails
\* (recompute error or timeout) returns exactly (zero value, false), also
\* when the remote tier holds an expired entry for k and when the recompute
\* returned a value together with its error.
C5_FailedGetReturnsZero ==
    (ev.op = "Get" /\ ~ev.ok) => ev.val = 0
\* C6: a successful Refresh(k) returning v publishes the entry (v,
\* recheck_at = now + recheck window, expires_at = now + expires window):
\* the local tier holds it, and the remote tier holds it with the expires
\* window as its server-side TTL unless the SET failed, in which case the
\* remote tier is as it was; a Check(k) right after the Refresh returns
\* (v, true) from the local tier.
C6_RefreshPublishes ==
    [][ /\ \A th \in Threads :
             ( /\ pc[th] = "select" /\ pc'[th] # "select"
               /\ op[th].name = "Refresh"
               /\ chan[th].st = "sent" /\ ~chan[th].err )
             => LET k == op[th].key
                    v == chan[th].item
                    r == now + cfg.Recheck
                    e == now + cfg.Expires
                IN /\ ev' = Event("Refresh", k, v, TRUE, TRUE, "none", FALSE)
                   /\ items'[k] = [present |-> TRUE,
                                   item |-> [Value |-> v, ExpiresAt |-> e,
                                             RecheckAt |-> r]]
                   /\ \/ redis'[k] = [present |-> TRUE,
                                      data |-> [kind |-> "ok", Value |-> v,
                                                ExpiresAt |-> e, RecheckAt |-> r],
                                      ttlAt |-> e]
                      \/ redis' = redis
        /\ (ev.op = "Refresh" /\ ev.ok /\ ev'.op = "Check" /\ ev'.key = ev.key)
           => (ev'.ok /\ ev'.val = ev.val /\ ev'.rd = "none") ]_vars

\* C6 witness: a Refresh has just returned v; both tiers hold v, with a
\* recheck time that differs from the expiry.
C6_Witness ==
    \E k \in Keys :
        /\ ev.op = "Refresh" /\ ev.key = k /\ ev.ok
        /\ items[k].present /\ items[k].item.Value = ev.val
        /\ redis[k].present /\ redis[k].data.Value = ev.val
        /\ items[k].item.RecheckAt < items[k].item.ExpiresAt

\* C7: Check(k) never invokes the recompute function, and it returns
\* (value, true) if and only if an unexpired entry for k exists in the
\* local tier or in the remote tier at the time of the call.  (The formula
\* counts an entry whose expiry is exactly now as unexpired where Check
\* hits and as expired where Check misses, and asks for a hit only when the
\* remote read, if one was made, was answered.)
C7_CheckHitIffUnexpired ==
    [][\A k \in Keys :
         (ev'.op = "Check" /\ ev'.key = k)
         => /\ minted' = minted /\ chan' = chan /\ pc' = pc
            /\ ev'.ok =>
                 \/ items[k].present /\ items[k].item.ExpiresAt >= now
                 \/ /\ redis[k].present /\ redis[k].data.kind # "garbage"
                    /\ redis[k].data.ExpiresAt >= now
            /\ ( /\ ev'.rd # "fail"
                 /\ \/ items[k].present /\ items[k].item.ExpiresAt > now
                    \/ /\ redis[k].present /\ redis[k].data.kind # "garbage"
                       /\ redis[k].data.ExpiresAt > now )
               => ev'.ok]_vars

\* The only entry for k is stale and unexpired, and it is in the local tier
\* (the remote tier has nothing else), or it is in the remote tier only.
StaleLocal(k) ==
    /\ items[k].present
    /\ items[k].item.RecheckAt <= now /\ now < items[k].item.ExpiresAt
    /\ redis[k].present => redis[k].data = Marshal(items[k].item)
StaleRemoteOnly(k) ==
    /\ ~items[k].present
    /\ redis[k].present /\ redis[k].data.kind = "ok"
    /\ redis[k].data.RecheckAt <= now /\ now < redis[k].data.ExpiresAt

\* C8: when the only entry for k has recheck_at <= now < expires_at, Get(k)
\* and Check(k) return that entry's value with true, and Get(k) does not
\* invoke the recompute function.  For an entry that is in the remote tier
\* only, this is when the remote read is answered.
C8_StaleIsServed ==
    [][\A k \in Keys :
         ( /\ ImmediateRead(ev', k)
           /\ StaleLocal(k) \/ (StaleRemoteOnly(k) /\ ev'.rd = "ok") )
         => /\ ev'.op # "GetMiss" /\ ev'.ok /\ ~ev'.called
            /\ ev'.val = IF StaleLocal(k) THEN items[k].item.Value
                         ELSE redis[k].data.Value
            /\ minted' = minted /\ chan' = chan]_vars

\* C8 witness: a Get was answered from the local tier with an entry whose
\* recheck time has passed and whose expiry has not.
C8_Witness ==
    \E k \in Keys :
        /\ ev.op = "Get" /\ ev.key = k /\ ev.ok /\ ~ev.called /\ ev.rd = "none"
        /\ StaleLocal(k) /\ ev.val = items[k].item.Value /\ ev.val > 0

\* C9: remote warm path.  When the remote tier holds a well-formed
\* unexpired entry for k, the local tier has no usable entry for k and the
\* remote read is answered, Check(k) returns (value, true) and afterwards
\* the local tier holds that entry.
C9_RemoteWarmPath ==
    [][\A k \in Keys :
         ( /\ ev'.op = "Check" /\ ev'.key = k /\ ev'.rd = "ok"
           /\ ~items[k].present \/ items[k].item.ExpiresAt < now
           /\ redis[k].present /\ redis[k].data.kind = "ok"
           /\ now < redis[k].data.ExpiresAt )
         => /\ ev'.ok /\ ev'.val = redis[k].data.Value
            /\ items'[k] = [present |-> TRUE,
                            item |-> [Value |-> redis[k].data.Value,
                                      ExpiresAt |-> redis[k].data.ExpiresAt,
                                      RecheckAt |-> redis[k].data.RecheckAt]]]_vars

\* C9 witness: this instance never published; a Check returned a value
\* it read from the remote tier, and the local tier now holds it.
C9_Witness ==
    \E k \in Keys :
        /\ ev.op = "Check" /\ ev.key = k /\ ev.ok /\ ev.rd = "ok" /\ ev.val > 0
        /\ ~pub[k].set
        /\ items[k].present /\ redis[k].present
        /\ Marshal(items[k].item) = redis[k].data

\* C10: refresh timeout.  When the recompute has not completed as the
\* refresh timeout elapses, the call leaves the select without waiting:
\* Refresh(k) fails and Get(k) returns (zero, false); when the recompute
\* completes with v before the timeout, Get(k) returns (v, true).
C10_RefreshTimeout ==
    [][\A th \in Threads :
         (pc[th] = "select" /\ pc'[th] # "select")
         => /\ chan[th].st = "running"
               => /\ now >= op[th].deadline
                  /\ ~ev'.ok /\ ev'.val = 0 /\ ev'.op = op[th].name
            /\ (chan[th].st = "sent" /\ ~chan[th].err /\ op[th].name = "Get")
               => /\ ev'.op = "Get" /\ ev'.ok /\ ev'.val = chan[th].item]_vars
\* The values of the recomputes of key k whose caller timed out.
Lost(k) == abandoned[k].running \cup abandoned[k].done

\* C11: the result of an abandoned recompute is discarded: the value of a
\* recompute whose caller timed out is never in the local tier (the
\* registry) nor in the remote tier, whether the recompute is still running
\* or has finished, and no Check or Get returns it.
C11_AbandonedDiscarded ==
    \A k \in Keys : \A v \in Lost(k) :
        /\ items[k].item.Value # v
        /\ redis[k].data.Value # v
        /\ pub[k].v # v
        /\ (ev.key = k /\ ev.op \in {"Check", "Get", "GetMiss"}) => ev.val # v

\* C11 witness: an abandoned recompute has finished, and afterwards a Check
\* returned the value of a later recompute.
C11_Witness ==
    \E k \in Keys :
        /\ abandoned[k].done # {}
        /\ ev.op = "Check" /\ ev.key = k /\ ev.ok /\ ev.val > 0
        /\ items[k].present /\ items[k].item.Value = ev.val

\* The recomputes for key k that are running: the one a caller waits for,
\* and the abandoned ones.
InFlight(k) ==
    Cardinality(abandoned[k].running)
    + Cardinality({th \in Threads : /\ pc[th] = "select" /\ op[th].key = k
                                    /\ chan[th].st = "running"})

\* C12: at every instant at most one recompute per key is in flight on the
\* instance, the abandoned recomputes that are still running included.
C12_BoundedInFlight ==
    \A k \in Keys : InFlight(k) <= 1
\* C13: a failed refresh changes nothing.  The step in which a Get enters
\* its miss branch, and the step in which a Refresh or that miss branch
\* fails (recompute error or timeout), leave the local tier (the registry)
\* and the remote tier as they were; and while a call waits for its
\* recompute nothing else changes the local tier.  So a Check after the
\* failed call finds the rows the call found.
C13_FailedRefreshChangesNothing ==
    [][ /\ ev'.op = "GetMiss" => (items' = items /\ redis' = redis)
        /\ \A th \in Threads :
             ( /\ pc[th] = "select" /\ pc'[th] # "select"
               /\ chan[th].st = "running" \/ chan[th].err )
             => /\ items' = items /\ redis' = redis /\ pub' = pub
                /\ ~ev'.ok /\ ev'.op = op[th].name
        /\ \A th \in Threads :
             (pc[th] = "select" /\ pc'[th] = "select") => items' = items ]_vars

\* C13 witness: a Refresh has just failed and the unexpired row it was to
\* replace is still in both tiers.
C13_Witness ==
    \E k \in Keys :
        /\ ev.op = "Refresh" /\ ev.key = k /\ ~ev.ok
        /\ items[k].present /\ now < items[k].item.ExpiresAt
        /\ redis[k].present /\ redis[k].data = Marshal(items[k].item)
\* C14: when the remote GET fails (timeout or I/O error) or the server
\* holds no record for k, the read of the remote tier is a miss: a Check
\* returns the zero value and false and warms nothing, and a Get goes on
\* to the recompute function as on a plain miss, with the zero value as
\* its fallback.
C14_RemoteFailureIsMiss ==
    [][ \A k \in Keys :
          ( /\ ImmediateRead(ev', k)
            /\ ev'.rd = "fail" \/ (ev'.rd = "ok" /\ ~redis[k].present) )
          => /\ ~ev'.ok /\ ev'.val = 0
             /\ items' = items
             /\ ev'.op # "Check" =>
                  /\ ev'.op = "GetMiss" /\ ev'.called
                  /\ minted' = minted + 1
                  /\ \E th \in Threads :
                       /\ pc'[th] = "select" /\ chan'[th].st = "running"
                       /\ op'[th].key = k /\ op'[th].a = 0 ]_vars

\* C14 witness: a Get whose remote GET failed while the server held an
\* unexpired row has entered the recompute.
C14_Witness ==
    \E k \in Keys :
        /\ ev.op = "GetMiss" /\ ev.key = k /\ ev.rd = "fail"
        /\ redis[k].present /\ redis[k].data.kind = "ok"
        /\ now < redis[k].data.ExpiresAt
\* C15: a remote record that does not decode is a miss: a Check that
\* reads such a record (the local tier having no usable entry) does not
\* return true and does not populate the local tier.
C15_DecodeFailureIsMiss ==
    [][ \A k \in Keys :
          ( /\ ev'.op = "Check" /\ ev'.key = k /\ ev'.rd = "ok"
            /\ redis[k].present /\ redis[k].data.kind = "garbage" )
          => (~ev'.ok /\ items' = items) ]_vars
\* C16: a failed remote SET does not fail the refresh.  The step of a
\* successful recompute that leaves the remote row of k as it was returns
\* the new value v (Refresh: (v, nil); Get: (v, true)) and puts the new
\* entry into the local tier; and a later Check(k) on this instance
\* returns v as long as that entry has not expired.  A well-formed remote
\* row older than the last published v shows that the SET of v failed.
C16_FailedSetKeepsLocal ==
    /\ [][ \A th \in Threads :
             ( /\ pc[th] = "select" /\ pc'[th] # "select"
               /\ chan[th].st = "sent" /\ ~chan[th].err
               /\ redis' = redis )
             => /\ ev'.ok /\ ev'.val = chan[th].item /\ ev'.op = op[th].name
                /\ items'[op[th].key].present
                /\ items'[op[th].key].item.Value = chan[th].item ]_vars
    /\ [](\A k \in Keys :
            ( /\ ev.op = "Check" /\ ev.key = k
              /\ pub[k].set /\ now < pub[k].exp
              /\ redis[k].present /\ redis[k].data.kind = "ok"
              /\ redis[k].data.Value < pub[k].v )
            => (ev.ok /\ ev.val = pub[k].v))
\* The reference of C17: a cache whose remote tier reports "no record" to
\* every read and accepts and drops every write.  Its check is decided by
\* the local tier alone.
EmptyRemoteCheck(k) ==
    LET a == getLocal(k) IN
    IF a.ok THEN [val |-> a.item.Value, ok |-> TRUE]
    ELSE [val |-> 0, ok |-> FALSE]

\* The keys the reference refreshes at a tick: the local rows that are due.
EmptyRemoteDue == {k \in Keys : items[k].present /\ ~(items[k].item.RecheckAt > now)}

\* C17: a cache built with a nil remote client behaves as the reference
\* does.  Every Check and every check of a Get returns what the local
\* tier alone decides, makes no remote read and warms nothing; a Get runs
\* the recompute exactly when the local tier has no unexpired row; a
\* successful refresh and a SetTTL store the entry locally and send
\* nothing to the server; a tick adopts nothing and refreshes exactly the
\* locally due keys; and the server changes only by other processes and by
\* its own expiry.
C17_NilClientIsEmptyRemote ==
    [][ /\ \A k \in Keys :
             ImmediateRead(ev', k)
             => /\ ev'.ok = EmptyRemoteCheck(k).ok
                /\ ev'.val = EmptyRemoteCheck(k).val
                /\ ev'.rd = "none"
                /\ items' = items
                /\ ev'.op # "Check" => (ev'.called <=> ~EmptyRemoteCheck(k).ok)
        /\ \A th \in Threads :
             ( /\ pc[th] = "select" /\ pc'[th] # "select"
               /\ chan[th].st = "sent" /\ ~chan[th].err )
             => /\ redis' = redis
                /\ items' = setLocal(items, op[th].key,
                                     [Value |-> chan[th].item,
                                      ExpiresAt |-> now + cfg.Expires,
                                      RecheckAt |-> now + cfg.Recheck])
                /\ ev'.ok /\ ev'.val = chan[th].item
        /\ ev'.op = "SetTTL"
             => /\ redis' = redis
                /\ items'[ev'.key].present
                /\ items'[ev'.key].item.Value = ev'.val
        /\ ev'.op = "Tick"
             => /\ items' = items /\ ev'.rd = "none"
                /\ \A t \in Tickers : pc[t] = "idle" => todo'[t] = EmptyRemoteDue
        /\ redis' # redis
             => /\ items' = items /\ pc' = pc /\ todo' = todo
                /\ ev' = NoEv ]_vars

\* C17 witness: with a nil client, a Check is answered from the local tier
\* with the value of a refresh whose remote write was dropped, while
\* another process has put a different row on the server.
C17_Witness ==
    \E k \in Keys :
        /\ cfg.redisClient = "nil"
        /\ ev.op = "Check" /\ ev.key = k /\ ev.ok
        /\ pub[k].set /\ ev.val = pub[k].v
        /\ redis[k].present /\ redis[k].data.kind = "ok"
        /\ redis[k].data.Value # ev.val
\* A registry row is due at the current time.
Due(k) == items[k].present /\ ~(items[k].item.RecheckAt > now)

\* The goroutine of rc.Start has invoked the recompute function for k.
TickerLoads(k) == \E t \in Tickers : pc[t] = "select" /\ op[t].key = k

C19_PeerRefreshAdopted ==
    [][ \A t \in Tickers : \A k \in Keys :
        /\ (ev'.op = "Tick" /\ pc[t] = "idle" /\ Due(k)) => ev'.rd # "none"
        /\
          ( /\ ev'.op = "Tick" /\ ev'.rd = "ok" /\ pc[t] = "idle"
            /\ Due(k)
            /\ redis[k].present /\ redis[k].data.kind = "ok"
            /\ now < redis[k].data.ExpiresAt
            /\ redis[k].data.RecheckAt > now )
          => /\ items'[k].present
             /\ items'[k].item.RecheckAt = redis[k].data.RecheckAt
             /\ Marshal(items'[k].item) = redis[k].data
             /\ k \notin todo'[t]
             /\ ~TickerLoads(k)' ]_vars

\* C19 witness: a scan has just replaced a due row by the newer row of a
\* peer and queued nothing.
C19_Witness ==
    \E k \in Keys :
        /\ ev.op = "Tick" /\ ev.rd = "ok"
        /\ items[k].present /\ items[k].item.RecheckAt > now
        /\ redis[k].present /\ redis[k].data = Marshal(items[k].item)
        /\ pub[k].set /\ pub[k].v < items[k].item.Value
        /\ \A t \in Tickers : pc[t] = "idle" /\ todo[t] = {}
\* C20: the refresher survives the failure of a key.  When the refresh
\* of a due key fails (error of the recompute function) or times out in
\* the loop of a tick, the row of that key is left as it was, so the key
\* is still due; the keys of that tick not yet refreshed stay queued and
\* the goroutine goes on with them, or back to waiting for the next tick
\* when none is left; every queued key leads to the recompute function
\* being invoked for it (while the model has values left); and the next
\* scan queues the failed key again.
C20_RefresherSurvivesFailure ==
    /\ [][ \A t \in Tickers : \A k \in Keys :
             ( /\ pc[t] = "select" /\ pc'[t] # "select" /\ op[t].key = k
               /\ chan[t].st = "running" \/ chan[t].err )
             => /\ items' = items /\ redis' = redis
                /\ Due(k) => Due(k)'
                /\ todo' = todo
                /\ lock' = NoOne
                /\ pc'[t] = IF todo[t] = {} THEN "idle" ELSE "loop" ]_vars
    /\ [][ \A t \in Tickers : \A k \in Keys :
             ( /\ ev'.op = "Tick" /\ pc[t] = "idle" /\ Due(k)
               /\ redis[k].present /\ redis[k].data = Marshal(items[k].item) )
             => k \in todo'[t] ]_vars
    /\ \A t \in Tickers : \A k \in Keys :
         (pc[t] = "loop" /\ k \in todo[t]) ~> (TickerLoads(k) \/ minted = MaxVal)
    /\ \A t \in Tickers : pc[t] # "idle" ~> pc[t] = "idle" \/ minted = MaxVal

\* C20 witness: in one tick the refresh of one due key has failed, its row
\* being still the old one and still due, and the refresh of the other due
\* key has then succeeded; the goroutine is back to waiting for a tick.
C20_Witness ==
    \E k1 \in Keys, k2 \in Keys :
        /\ k1 # k2
        /\ Due(k1) /\ items[k1].item.Value = 0
        /\ minted = 2
        /\ ev.op = "Refresh" /\ ev.key = k2 /\ ev.ok /\ ev.val = 2
        /\ items[k2].item.Value = 2
        /\ \A t \in Tickers : pc[t] = "idle" /\ todo[t] = {}
\* The refresher goroutines that exist.
ActiveRefreshers == {t \in Refreshers : pc[t] # "off"}

\* C21: Start(0) disables the refresher.  A call of Start with the period
\* zero completes normally and creates no background task; and as long as
\* Start has only been called with zero, no background task of the cache
\* exists.
C21_StartZeroDisables ==
    [][ (ev'.op = "Start" /\ ev'.val = 0)
        => /\ \A th \in Threads : pc'[th] # "panic"
           /\ \A c \in Callers : pc'[c] = "idle"
           /\ ActiveRefreshers' = ActiveRefreshers ]_vars

\* C22: Start is idempotent.  Whatever calls of Start have been made, at
\* most one refresher task of the instance exists.
C22_StartIdempotent == Cardinality(ActiveRefreshers) <= 1

\* C23: clean shutdown.  Once the embedder has stopped the cache, no
\* background task of the instance scans the registry, invokes the
\* recompute function or writes to a tier.
C23_CleanShutdown ==
    [][ (\A c \in Callers : pc[c] = "stopped")
        => /\ items' = items /\ redis' = redis
           /\ minted' = minted
           /\ todo' = todo
           /\ ev'.op # "Tick" ]_vars

\* C24: every entry stored in the local tier or in the remote tier has
\* recheck_at <= expires_at, whatever calls were made and whatever windows
\* are configured.
C24_RecheckBeforeExpiry ==
    \A k \in Keys :
        /\ items[k].present => items[k].item.RecheckAt <= items[k].item.ExpiresAt
        /\ (redis[k].present /\ redis[k].data.kind = "ok")
               => redis[k].data.RecheckAt <= redis[k].data.ExpiresAt

\* C25: every key that Get has registered can be recomputed by the
\* refresher: the recompute function completes with a value or an error,
\* it never panics, however often the key was recomputed before.
C25_RegistryRecomputable == \A t \in Tickers : pc[t] # "panic"

\* C26: instances constructed with different topics never share a row of
\* the server: whatever keys they use, their fingerprints differ.
C26_TopicIsolation ==
    \A i, j \in Instances :
        (/\ ekey[i].called /\ ekey[j].called
         /\ topic[i].keyPrefix # topic[j].keyPrefix)
           => ekey[i].ekey # ekey[j].ekey

\* The step is a call of AddJob.
AddJobStep == hist'.last.op = "AddJob" /\ now' = now

\* A unique job with the key of job is waiting in the queue.
UniqueWaiting(job) ==
    \E i \in 1..Len(queue.buf) :
        queue.buf[i].job.Unique /\ HexKey(queue.buf[i].job) = HexKey(job)

ReceiveStep == queue.buf # <<>> /\ queue'.buf = Tail(queue.buf)

\* C28: a job whose JobDeadline is positive and earlier than the time it is
\* picked up is skipped and its worker never runs; a job with JobDeadline 0,
\* or with a deadline that has not passed, is handed to its worker.
C28_DeadlineSkips ==
    /\ [][ ReceiveStep =>
             LET e == Head(queue.buf) IN
             IF e.job.JobDeadline > 0 /\ e.job.JobDeadline < now
             THEN e.id \in hist'.skipped /\ wk' = wk
             ELSE /\ e.id \notin hist'.skipped
                  /\ \E w \in Workers : wk'[w].pc = "run" /\ wk'[w].id = e.id ]_vars
    /\ [](\A id \in hist.skipped :
             /\ hist.ran[id] = 0
             /\ \A w \in Workers : wk[w].id # id)

\* One job was skipped, and one with a deadline has run.
C28_Witness ==
    /\ hist.skipped # {}
    /\ \E id \in JobIds : hist.ran[id] = 1 /\ hist.jobs[id].JobDeadline > 0

\* C29: when Run has returned after Stop, every accepted job that is not
\* unique (and has no deadline) has been run by its worker exactly once,
\* and at no time has a job been run twice.
C29_ExactlyOnce ==
    /\ \A id \in JobIds : hist.ran[id] <= 1
    /\ runner = "returned"
         => \A id \in 1..hist.added :
               (~hist.jobs[id].Unique /\ hist.jobs[id].JobDeadline = 0)
                  => hist.ran[id] = 1

\* The middlewares registered with Use.
Registered == {f.middlewares[i] : i \in 1..Len(f.middlewares)}

\* C30: every registered middleware wraps the worker of every executed job:
\* for an executed job the Run of each registered middleware has been
\* entered exactly once and the job's worker has run exactly once; nothing
\* of a job that was not executed has been entered.
C30_MiddlewareWraps ==
    \A id \in JobIds :
        /\ hist.ran[id] <= 1
        /\ \A m \in Middlewares :
              hist.mw[id][m] = IF hist.ran[id] = 1 /\ m \in Registered THEN 1 ELSE 0

\* A job was executed under two middlewares.
C30_Witness ==
    /\ Len(f.middlewares) = 2
    /\ \E id \in JobIds : hist.ran[id] = 1

\* C32: a local row whose expires_at <= now, the case expires_at = now
\* included, is not returned from Check although the local mapping still
\* holds it: such a Check does not answer from the local tier (it goes on
\* to the remote tier), and the row stays in the mapping.
C32_TombstoneAtBoundary ==
    [][\A k \in Keys :
         ( /\ ev'.op = "Check" /\ ev'.key = k
           /\ items[k].present /\ items[k].item.ExpiresAt <= now )
         => /\ ev'.rd # "none"
            /\ items'[k].present ]_vars

\* C33: the partition of the refresher.  At a tick with snapshot time t a
\* registered key is taken for due exactly when recheck_at <= t and for
\* fresh exactly when recheck_at > t: a key with recheck_at = t is due.
C33_RefresherPartition ==
    [][\A t \in Tickers : \A k \in MeterKeys :
         (ev'.op = "AutoRefresh" /\ pc[t] = "idle" /\ localKeys[k].present)
         => (k \in todo'[t] <=> localKeys[k].RecheckAt <= now) ]_vars
\* C34: every read and write of the local tier and of the key registry (both
\* are rc.items) happens while the mutex of the instance is held, for Get,
\* Check, Refresh, SetTTL and the scan of the refresher: a thread inside
\* rc.refresh holds the mutex, and while a thread holds the mutex no other
\* thread reads or writes rc.items; the only access made is the one of the
\* holder as its call returns.
C34_MutexGuardsLocalTier ==
    /\ [](\A th \in Threads : pc[th] = "select" => lock = th)
    /\ [][ lock # NoOne
            => ( (items' # items \/ ev'.op # "none")
                 => (pc[lock] = "select" /\ pc'[lock] # "select") ) ]_vars

\* C34 witness: the refresher holds the mutex inside rc.refresh, the
\* recompute has returned a value for a key the local tier holds, and the
\* caller is free to make a call.
C34_Witness ==
    \E t \in Tickers :
        /\ lock = t /\ pc[t] = "select" /\ chan[t].st = "sent"
        /\ items[op[t].key].present
        /\ \A c \in Callers : pc[c] = "idle"
\* C35: every Get, Refresh and Check returns and releases the mutex, also
\* when the recompute function never returns and the remote tier never
\* answers, as long as the timeouts fire.  A Check is over in the step it
\* is made in; a call inside rc.refresh whose timer falls within the
\* modelled time leaves the select and gives up the mutex; a Get blocked
\* on the mutex gets it (unless the clock or the supply of values of the
\* model has run out); and no thread waits for the mutex while it is the
\* holder.
C35_CallsReturn ==
    /\ [](\A th \in Threads : pc[th] = "get_lock" => lock # th)
    /\ [](\A th \in Threads : lock = th => pc[th] = "select")
    /\ \A th \in Threads :
         (pc[th] = "select" /\ op[th].deadline <= MaxTime)
             ~> (pc[th] # "select" /\ lock # th)
    /\ \A w \in Waiters :
         (pc[w] = "get_lock")
             ~> (pc[w] # "get_lock" \/ now = MaxTime \/ minted = MaxVal)

\* C35 witness: a call has returned by the timeout while its recompute is
\* still running, the mutex is free again and a blocked Get is about to
\* take it.
C35_Witness ==
    \E k \in Keys :
        /\ ev.op \in {"Get", "Refresh"} /\ ev.key = k /\ ev.called /\ ~ev.ok
        /\ abandoned[k].running # {}
        /\ lock = NoOne
        /\ \E w \in Waiters : pc[w] = "get_lock"
\* C36: the goroutine that runs the recompute function terminates once the
\* function returns, also after its caller has timed out: it makes one send
\* on a channel of capacity one that nobody else sends on, so the send
\* completes without a receiver.  A goroutine left behind by a timeout ends,
\* it ends once, and the goroutine of a call that still waits hands over
\* its result or is left behind.
C36_RecomputeGoroutineEnds ==
    /\ \A k \in Keys : \A v \in 1..MaxVal :
         (v \in abandoned[k].running) ~> (v \in abandoned[k].done)
    /\ [][\A k \in Keys :
            /\ abandoned[k].done \subseteq abandoned'[k].done
            /\ abandoned'[k].running \cap abandoned[k].done = {} ]_vars
    /\ \A th \in Threads :
         (chan[th].st = "running") ~> (chan[th].st # "running")

\* C36 witness: the caller timed out, and the goroutine it left behind has
\* since returned and ended with nobody receiving.
C36_Witness ==
    \E k \in Keys :
        /\ abandoned[k].done # {} /\ abandoned[k].running = {}
        /\ \A th \in Threads : pc[th] # "select"
\* C37: the set of keys known to an instance never shrinks.  No operation
\* removes a row from rc.items (local tier and registry), so a key seen
\* once stays a candidate of the refresher: a scan that finds the row of a
\* key past its expiry and leaves it with recheck_at <= now queues the
\* key, and the recompute function the refresher then calls is called for
\* a queued key.
C37_KnownKeysNeverShrink ==
    /\ [][\A k \in Keys : items[k].present => items'[k].present]_vars
    /\ [][\A t \in Tickers : \A k \in Keys :
            ( /\ ev'.op = "Tick" /\ pc[t] = "idle"
              /\ items[k].present /\ items[k].item.ExpiresAt < now
              /\ items'[k].item.RecheckAt <= now )
            => k \in todo'[t] ]_vars
    /\ [][\A t \in Tickers :
            (pc[t] = "loop" /\ pc'[t] = "select")
            => (op'[t].key \in todo[t] /\ items[op'[t].key].present) ]_vars

\* C37 witness: the refresher is recomputing a key whose row in the local
\* tier ran out before the scan.
C37_Witness ==
    \E t \in Tickers :
        /\ pc[t] = "select" /\ chan[t].st = "running"
        /\ items[op[t].key].present
        /\ items[op[t].key].item.ExpiresAt < now
\* C38: the uniqueness key of a unique job is released whenever a worker
\* takes the job off the queue, whether the job is then run or skipped
\* because its deadline has passed; so an equal unique job added when none
\* is waiting is accepted.
C38_UniqueKeyReleased ==
    [][ /\ ReceiveStep =>
             LET e == Head(queue.buf) IN
             e.job.Unique => HexKey(e.job) \notin f'.uniqueJobs
        /\ (AddJobStep /\ f.jobs = "chan") =>
             LET job == hist'.last.job IN
             (job.Unique /\ ~UniqueWaiting(job))
                => queue'.buf = Append(queue.buf, [job |-> job, id |-> hist.added + 1])
      ]_vars
\* C39: AddJob of a unique job returns while another unique job is
\* executing, also when it is called from inside the worker of that
\* executing job: the uniqueness lock is never held by a goroutine that
\* then waits for it.
C39_AddJobReturns ==
    \A w \in Workers : wk[w].pc = "lockwait" => f.uniqueJobsLock # w
\* C40: an AddJob concurrent with Stop either enqueues its job or returns
\* "closed": it never sends on the closed channel (and is not left blocked
\* on a channel that is gone).  After Stop has returned every AddJob returns
\* "closed"; a second Run while running returns "already running"; Stop
\* while not running returns "not running".
C40_AddJobVersusStop ==
    /\ adder.pc \notin {"panic", "blocked"}
    /\ (hist.last.op = "AddJob" /\ hist.stopped) => hist.last.err = "closed"
    /\ (hist.last.op = "Run") => (hist.last.err = "already running" /\ f.running)
    /\ (hist.last.op = "Stop" /\ ~hist.stopped)
          => (hist.last.err = "not running" /\ ~f.running)
\* The limits that apply to a check: those of the user and the default
\* ones that carry the meter name and whose dimensions are among dims.
Matching(meterName, dims) ==
    {lim \in { limiter.userLimits[i] : i \in 1..Len(limiter.userLimits) }
              \cup { limiter.DefaultLimits[i] : i \in 1..Len(limiter.DefaultLimits) } :
        lim.MeterName = meterName /\ lim.Dims \subseteq dims}

\* What is metered for a limit now: the events of its meter in its span
\* that carry its dimensions.
Metered(lim) ==
    {i \in 1..Len(limiter.events) :
        /\ limiter.events[i].meterName = lim.MeterName
        /\ lim.Dims \subseteq limiter.events[i].dims
        /\ lim.Period = "hourly" => limiter.events[i].time = now}

====
